---------------------------- MODULE Spec2Model ----------------------------
(***************************************************************************)
(* A model of the IIIF Image API request core of the i3f crate:            *)
(*   - the five grammar types (Region, Size, Rotation, Quality, Format),   *)
(*     their FromStr parsers and Display renderers,                        *)
(*   - the request facade IiifImage::try_from and the canonical string,    *)
(*   - the region resolver Region::get_region,                             *)
(*   - the pipeline IiifImage::process against a Storage.                  *)
(*                                                                         *)
(* Text is modelled character by character: a string is a sequence of      *)
(* one-character strings, so that parsing and rendering are computed and   *)
(* not assumed.  An f32 is modelled as a sign, a decimal mantissa and a    *)
(* number of fraction digits (the shortest decimal that Rust's Display     *)
(* prints), plus the special values inf and NaN.                           *)
(***************************************************************************)
EXTENDS Integers, Sequences, FiniteSets, TLC

VARIABLES
    call,      \* the pure operation under examination and its input
    ret,       \* what that operation returned ("pending" before it ran)
    pc,        \* per invocation of IiifImage::process: the next step
    req,       \* per invocation: the request (self)
    image,     \* per invocation: the raster threaded through the stages
    bytes,     \* per invocation: origin bytes, then the encoded derivative
    result,    \* per invocation: what process returned
    log,       \* per invocation: the calls made so far, in order
    cache0,    \* per invocation: the derivative cache when the call began
    cache      \* the derivative cache of the Storage (iiif_dir)

pureVars == <<call, ret>>
procVars == <<pc, req, image, bytes, result, log, cache0, cache>>
vars == <<call, ret, pc, req, image, bytes, result, log, cache0, cache>>

-----------------------------------------------------------------------------
(* Strings *)

Digits == <<"0", "1", "2", "3", "4", "5", "6", "7", "8", "9">>
UpperCase == <<"A", "B", "C", "D", "E", "F", "G", "H", "I", "J", "K", "L", "M",
               "N", "O", "P", "Q", "R", "S", "T", "U", "V", "W", "X", "Y", "Z">>
LowerCase == <<"a", "b", "c", "d", "e", "f", "g", "h", "i", "j", "k", "l", "m",
               "n", "o", "p", "q", "r", "s", "t", "u", "v", "w", "x", "y", "z">>

IndexIn(c, seq) ==
    IF \E i \in 1..Len(seq) : seq[i] = c
    THEN CHOOSE i \in 1..Len(seq) : seq[i] = c
    ELSE 0

IsDigit(c) == IndexIn(c, Digits) # 0
DigitVal(c) == IndexIn(c, Digits) - 1

\* char::to_lowercase on the ASCII range
LowerChar(c) ==
    IF IndexIn(c, UpperCase) # 0 THEN LowerCase[IndexIn(c, UpperCase)] ELSE c

\* str::to_lowercase
ToLower(s) == [i \in 1..Len(s) |-> LowerChar(s[i])]

IsSpace(c) == c = " "

\* str::trim
Trim(s) ==
    IF \A i \in 1..Len(s) : IsSpace(s[i]) THEN <<>>
    ELSE LET a == CHOOSE i \in 1..Len(s) :
                      ~IsSpace(s[i]) /\ \A j \in 1..(i - 1) : IsSpace(s[j])
             b == CHOOSE i \in 1..Len(s) :
                      ~IsSpace(s[i]) /\ \A j \in (i + 1)..Len(s) : IsSpace(s[j])
         IN SubSeq(s, a, b)

\* str::starts_with
StartsWith(s, p) == Len(s) >= Len(p) /\ SubSeq(s, 1, Len(p)) = p

\* the rest of s after its first n characters
Drop(s, n) == SubSeq(s, n + 1, Len(s))

\* str::contains(char)
Contains(s, c) == \E i \in 1..Len(s) : s[i] = c

\* str::split(char): the parts between the separators, always at least one
RECURSIVE Split(_, _)
Split(s, sep) ==
    IF ~Contains(s, sep) THEN <<s>>
    ELSE LET i == CHOOSE k \in 1..Len(s) :
                      s[k] = sep /\ \A j \in 1..(k - 1) : s[j] # sep
         IN <<SubSeq(s, 1, i - 1)>> \o Split(Drop(s, i), sep)

RECURSIVE Join(_, _)
Join(parts, sep) ==
    IF Len(parts) = 0 THEN <<>>
    ELSE IF Len(parts) = 1 THEN parts[1]
    ELSE parts[1] \o sep \o Join(Tail(parts), sep)

RECURSIVE Pow10(_)
Pow10(n) == IF n <= 0 THEN 1 ELSE 10 * Pow10(n - 1)

-----------------------------------------------------------------------------
(* Results: Ok(val) or Err(kind, msg, tok).  The error message of the code *)
(* is format!(msg, tok): a fixed text followed by the offending token.     *)

NoErr == [kind |-> "none", msg |-> "", tok |-> <<>>]
Ok(v) == [ok |-> TRUE, val |-> v, err |-> NoErr]
Err(kind, msg, tok) ==
    [ok |-> FALSE, val |-> <<>>, err |-> [kind |-> kind, msg |-> msg, tok |-> tok]]

-----------------------------------------------------------------------------
(* Numbers: u32 and f32 as the standard library parses and prints them *)

RECURSIVE DigitsValue(_)
DigitsValue(s) ==
    IF Len(s) = 0 THEN 0
    ELSE 10 * DigitsValue(SubSeq(s, 1, Len(s) - 1)) + DigitVal(s[Len(s)])

AllDigits(s) == \A i \in 1..Len(s) : IsDigit(s[i])

RECURSIVE StripZeros(_)
StripZeros(s) ==
    IF Len(s) > 1 /\ s[1] = "0" THEN StripZeros(Tail(s)) ELSE s

\* <u32 as FromStr>::from_str: an optional '+', then one or more decimal
\* digits; no '-', no blanks.  A value above u32::MAX is a PosOverflow
\* error; the model decides that by the number of significant digits, which
\* is exact for every token of at most nine digits.
ParseU32(s) ==
    LET d == IF Len(s) > 0 /\ s[1] = "+" THEN Tail(s) ELSE s
    IN IF Len(d) = 0 \/ ~AllDigits(d) THEN Err("ParseIntError", "", s)
       ELSE IF Len(StripZeros(d)) > 9 THEN Err("ParseIntError", "", s)
       ELSE Ok(DigitsValue(d))

\* <u32 as Display>::fmt
RECURSIVE ShowNat(_)
ShowNat(n) ==
    IF n < 10 THEN <<Digits[n + 1]>>
    ELSE ShowNat(n \div 10) \o <<Digits[(n % 10) + 1]>>

\* An f32.  k = "fin": the value (-1)^neg * m / 10^e with e minimal (m has no
\* trailing zero unless e = 0); k = "inf": +-infinity; k = "nan": NaN.
RECURSIVE NormFin(_, _, _)
NormFin(neg, m, e) ==
    IF e > 0 /\ m % 10 = 0 THEN NormFin(neg, m \div 10, e - 1)
    ELSE [k |-> "fin", neg |-> neg, m |-> m, e |-> e]

FInf(neg) == [k |-> "inf", neg |-> neg, m |-> 0, e |-> 0]
FNaN == [k |-> "nan", neg |-> FALSE, m |-> 0, e |-> 0]
F(m, e) == NormFin(FALSE, m, e)

\* f32 == f32 (PartialEq): NaN equals nothing, -0 equals +0
FEq(a, b) ==
    /\ a.k # "nan" /\ b.k # "nan"
    /\ \/ a = b
       \/ a.k = "fin" /\ b.k = "fin" /\ a.m = 0 /\ b.m = 0

\* the decimal part of a float literal: digits [ '.' digits ], with at least
\* one digit in all; gives the digit string and the number of fraction digits
ParseDecimal(s) ==
    LET parts == Split(s, ".")
        ip == parts[1]
        fp == IF Len(parts) = 2 THEN parts[2] ELSE <<>>
    IN IF Len(parts) > 2 \/ ~AllDigits(ip) \/ ~AllDigits(fp)
          \/ Len(ip) + Len(fp) = 0
       THEN Err("ParseFloatError", "", s)
       ELSE Ok([m |-> DigitsValue(ip \o fp), e |-> Len(fp)])

\* the exponent part of a float literal: [+-] digits, at least one digit
ParseExponent(s) ==
    LET neg == Len(s) > 0 /\ s[1] = "-"
        d == IF Len(s) > 0 /\ s[1] \in {"+", "-"} THEN Tail(s) ELSE s
    IN IF Len(d) = 0 \/ ~AllDigits(d) THEN Err("ParseFloatError", "", s)
       ELSE Ok(IF neg THEN 0 - DigitsValue(d) ELSE DigitsValue(d))

\* <f32 as FromStr>::from_str: [+-] (decimal [ (e|E) exponent ] | inf |
\* infinity | nan), the words in any letter case; no blanks
ParseF32(s) ==
    LET neg == Len(s) > 0 /\ s[1] = "-"
        body == IF Len(s) > 0 /\ s[1] \in {"+", "-"} THEN Tail(s) ELSE s
        low == ToLower(body)
        eparts == Split(low, "e")
        dec == ParseDecimal(eparts[1])
        ex == IF Len(eparts) = 2 THEN ParseExponent(eparts[2]) ELSE Ok(0)
    IN IF low = <<"n", "a", "n">> THEN Ok(FNaN)
       ELSE IF low = <<"i", "n", "f">>
               \/ low = <<"i", "n", "f", "i", "n", "i", "t", "y">>
       THEN Ok(FInf(neg))
       ELSE IF Len(eparts) > 2 \/ ~dec.ok \/ ~ex.ok
       THEN Err("ParseFloatError", "", s)
       ELSE IF ex.val >= 0
       THEN Ok(NormFin(neg, dec.val.m * Pow10(ex.val), dec.val.e))
       ELSE Ok(NormFin(neg, dec.val.m, dec.val.e - ex.val))

\* the digits of m, padded on the left with zeros to at least n digits
RECURSIVE PadZeros(_, _)
PadZeros(s, n) == IF Len(s) >= n THEN s ELSE PadZeros(<<"0">> \o s, n)

\* <f32 as Display>::fmt: the shortest decimal that reads back as the same
\* value, in positional notation; "inf", "-inf", "NaN"; "-0" for -0.0
ShowF32(f) ==
    IF f.k = "nan" THEN <<"N", "a", "N">>
    ELSE LET sign == IF f.neg THEN <<"-">> ELSE <<>>
         IN IF f.k = "inf" THEN sign \o <<"i", "n", "f">>
            ELSE IF f.e = 0 THEN sign \o ShowNat(f.m)
            ELSE LET d == PadZeros(ShowNat(f.m), f.e + 1)
                 IN sign \o SubSeq(d, 1, Len(d) - f.e) \o <<".">>
                         \o SubSeq(d, Len(d) - f.e + 1, Len(d))

-----------------------------------------------------------------------------
(* Region: image/region.rs *)

\* a variant and its arguments (a pair, so that the variant is compared first)
Tag(x) == x[1]
Args(x) == x[2]
Region(tag, v) == <<tag, v>>
RegionFull == Region("Full", <<>>)
RegionSquare == Region("Square", <<>>)
RegionRect(x, y, w, h) == Region("Rect", <<x, y, w, h>>)
RegionPct(x, y, w, h) == Region("Pct", <<x, y, w, h>>)

\* #[derive(PartialEq)] for Region
RegionEq(r1, r2) ==
    /\ Tag(r1) = Tag(r2)
    /\ IF Tag(r1) = "Pct" THEN \A i \in 1..4 : FEq(Args(r1)[i], Args(r2)[i])
       ELSE Args(r1) = Args(r2)

\* the parts of a comma list, each parsed by the same number parser
AllOk(rs) == \A i \in 1..Len(rs) : rs[i].ok
Vals(rs) == [i \in 1..Len(rs) |-> rs[i].val]

parse_rect_coordinates(coords) ==
    LET parts == Split(coords, ",")
        values == [i \in 1..Len(parts) |-> ParseU32(parts[i])]
    IN IF Len(parts) # 4 THEN Err("InvalidRegionFormat", "", coords)
       ELSE IF AllOk(values) THEN Ok(Region("Rect", Vals(values)))
       ELSE Err("InvalidRegionFormat", "", coords)

\* (mutant) parts after the fourth are ignored
parse_pct_coordinates_first_four(coords) ==
    LET parts == Split(coords, ",")
        values == [i \in 1..4 |-> ParseF32(parts[i])]
    IN IF Len(parts) < 4 THEN Err("InvalidRegionFormat", "", coords)
       ELSE IF AllOk(values) THEN Ok(Region("Pct", Vals(values)))
       ELSE Err("InvalidRegionFormat", "", coords)

parse_pct_coordinates(coords) ==
    LET parts == Split(coords, ",")
        values == [i \in 1..Len(parts) |-> ParseF32(parts[i])]
    IN IF Len(parts) # 4 THEN Err("InvalidRegionFormat", "", coords)
       ELSE IF AllOk(values) THEN Ok(Region("Pct", Vals(values)))
       ELSE Err("InvalidRegionFormat", "", coords)

RegionFromStr(s) ==
    LET s_lower == ToLower(Trim(s))
    IN IF s_lower = <<"f", "u", "l", "l">> THEN Ok(RegionFull)
       ELSE IF s_lower = <<"s", "q", "u", "a", "r", "e">> THEN Ok(RegionSquare)
       ELSE IF StartsWith(s_lower, <<"p", "c", "t", ":">>)
       THEN parse_pct_coordinates(Drop(s_lower, 4))
       ELSE IF Contains(s_lower, ",") THEN parse_rect_coordinates(s_lower)
       ELSE Err("InvalidRegionFormat", "", s)

RegionDisplay(r) ==
    CASE Tag(r) = "Full" -> <<"f", "u", "l", "l">>
      [] Tag(r) = "Square" -> <<"s", "q", "u", "a", "r", "e">>
      [] Tag(r) = "Rect" ->
            Join([i \in 1..4 |-> ShowNat(Args(r)[i])], <<",">>)
      [] Tag(r) = "Pct" ->
            <<"p", "c", "t", ":">> \o Join([i \in 1..4 |-> ShowF32(Args(r)[i])], <<",">>)

\* f32 arithmetic of get_region.  The operations are exact on the values the
\* model feeds them (multiples of 1/4 percent times small dimensions, where
\* every f32 result is representable); the decimal test values of the
\* repository are away from every rounding tie.
FIsZero(f) == f.k = "fin" /\ f.m = 0
FGe100(f) ==
    CASE f.k = "nan" -> FALSE
      [] f.k = "inf" -> ~f.neg
      [] f.k = "fin" -> ~f.neg /\ f.m >= 100 * Pow10(f.e)

\* the signed value of a finite f, in units of 10^-E
FSigned(f, E) == (IF f.neg THEN 0 - f.m ELSE f.m) * Pow10(E - f.e)
Max2(a, b) == IF a >= b THEN a ELSE b
Min2(a, b) == IF a <= b THEN a ELSE b

\* 100.0 - f
FSub100(f) ==
    CASE f.k = "nan" -> FNaN
      [] f.k = "inf" -> FInf(~f.neg)
      [] f.k = "fin" ->
            LET v == 100 * Pow10(f.e) - FSigned(f, f.e)
            IN NormFin(v < 0, IF v < 0 THEN 0 - v ELSE v, f.e)

FLess(a, b) ==
    CASE a.k = "inf" -> a.neg /\ a # b
      [] b.k = "inf" -> ~b.neg
      [] OTHER -> FSigned(a, Max2(a.e, b.e)) < FSigned(b, Max2(a.e, b.e))

\* f32::min: the lesser value; a NaN operand is ignored
FMin(a, b) ==
    IF a.k = "nan" THEN b
    ELSE IF b.k = "nan" THEN a
    ELSE IF FLess(b, a) THEN b ELSE a

\* (mutant) the product is cast without round(): the fraction is cut off
ToPixels_truncate(dim, f) ==
    CASE f.k = "nan" -> 0
      [] f.k = "fin" ->
            IF f.neg THEN 0 ELSE (dim * f.m) \div (100 * Pow10(f.e))

\* (dim as f32 * (f / 100.0)).round() as u32: round half away from zero, then
\* the saturating cast (NaN and every negative value give 0).  An infinite f
\* saturates to u32::MAX, which is outside the integers of the model: the
\* modelled inputs hold no infinite percentage.
ToPixels(dim, f) ==
    CASE f.k = "nan" -> 0
      [] f.k = "fin" ->
            IF f.neg THEN 0
            ELSE (2 * dim * f.m + 100 * Pow10(f.e)) \div (200 * Pow10(f.e))

\* (mutant) an extent past the image edge is rejected instead of truncated
get_region_rect_reject(self, width, height) ==
    LET x == Args(self)[1]
        y == Args(self)[2]
        w == Args(self)[3]
        h == Args(self)[4]
    IN IF w = 0 \/ h = 0 \/ x >= width \/ y >= height
          \/ x + w > width \/ y + h > height
       THEN Err("RegionIsInvalid", "X or Y is out of bounds: ",
                RegionDisplay(self))
       ELSE Ok(<<x, y, w, h>>)

\* get_region, the arm Region::Rect
get_region_rect(self, width, height) ==
    LET x == Args(self)[1]
        y == Args(self)[2]
        w == Args(self)[3]
        h == Args(self)[4]
    IN IF w = 0 \/ h = 0
       THEN Err("RegionIsInvalid", "Width or height is 0: ", RegionDisplay(self))
       ELSE IF x >= width \/ y >= height
       THEN Err("RegionIsInvalid", "X or Y is out of bounds: ",
                RegionDisplay(self))
       ELSE Ok(<<x, y, Min2(w, width - x), Min2(h, height - y)>>)

\* get_region, the arm Region::Pct
get_region_pct(self, width, height) ==
    LET x == Args(self)[1]
        y == Args(self)[2]
        w == Args(self)[3]
        h == Args(self)[4]
        rw == FMin(w, FSub100(x))
        rh == FMin(h, FSub100(y))
    IN IF FIsZero(w) \/ FIsZero(h)
       THEN Err("RegionIsInvalid", "Width or height is 0: ", RegionDisplay(self))
       ELSE IF FGe100(x) \/ FGe100(y)
       THEN Err("RegionIsInvalid", "X or Y is out of bounds: ",
                RegionDisplay(self))
       ELSE Ok(<<ToPixels(width, x), ToPixels(height, y),
                 ToPixels(width, rw), ToPixels(height, rh)>>)

\* (mutant) the square starts at the origin
get_region_square_origin(width, height) ==
    Ok(<<0, 0, Min2(width, height), Min2(width, height)>>)

get_region_square(width, height) ==
    LET min == Min2(width, height)
    IN Ok(<<(width - min) \div 2, (height - min) \div 2, min, min>>)

get_region(self, width, height) ==
    CASE Tag(self) = "Full" -> Ok(<<0, 0, width, height>>)
      [] Tag(self) = "Square" -> get_region_square(width, height)
      [] Tag(self) = "Rect" -> get_region_rect(self, width, height)
      [] Tag(self) = "Pct" -> get_region_pct(self, width, height)

-----------------------------------------------------------------------------
(* Size: image/size.rs.  None is the Option of parse_content and below. *)

Size(tag, v) == <<tag, v>>
None == [some |-> FALSE, val |-> <<>>]
Some(v) == [some |-> TRUE, val |-> v]
\* Result::ok(): Ok(v) to Some(v), Err(_) to None
OkOpt(r) == IF r.ok THEN Some(r.val) ELSE None

\* (mutant) a percentage above 100 is taken without the marker too
parse_pct_unlimited(pct_str, caret) ==
    LET n == OkOpt(ParseU32(pct_str))
    IN IF ~n.some THEN None
       ELSE IF caret THEN Some(Size("CPct", <<n.val>>))
       ELSE Some(Size("Pct", <<n.val>>))

parse_pct(pct_str, caret) ==
    LET n == OkOpt(ParseU32(pct_str))
    IN IF ~n.some THEN None
       ELSE IF caret THEN Some(Size("CPct", <<n.val>>))
       ELSE IF n.val <= 100 THEN Some(Size("Pct", <<n.val>>))
       ELSE None

parse_two_nums(coords) ==
    LET parts == Split(coords, ",")
        w == ParseU32(parts[1])
        h == IF Len(parts) >= 2 THEN ParseU32(parts[2]) ELSE Err("", "", <<>>)
    IN IF ~w.ok THEN None
       ELSE IF Len(parts) < 2 \/ ~h.ok THEN None
       ELSE IF Len(parts) > 2 THEN None
       ELSE Some(<<w.val, h.val>>)

parse_fit(coords, caret) ==
    LET wh == parse_two_nums(coords)
    IN IF ~wh.some THEN None
       ELSE IF caret THEN Some(Size("CLWH", wh.val))
       ELSE Some(Size("LWH", wh.val))

\* (mutant) a marker after the comma is skipped and not recorded
parse_dims_embedded_ignored(content, caret0) ==
    LET parts == Split(content, ",")
        w == IF Len(parts[1]) = 0 THEN None ELSE OkOpt(ParseU32(parts[1]))
        hasCaret == Len(parts[2]) > 0 /\ parts[2][1] = "^"
        h == IF Len(parts[2]) = 0 THEN None
             ELSE IF hasCaret THEN OkOpt(ParseU32(Tail(parts[2])))
             ELSE OkOpt(ParseU32(parts[2]))
        caret == caret0
    IN IF Len(parts) # 2 THEN None
       ELSE IF w.some /\ h.some
       THEN Some(Size(IF caret THEN "CWH" ELSE "WH", <<w.val, h.val>>))
       ELSE IF w.some
       THEN Some(Size(IF caret THEN "CW" ELSE "W", <<w.val>>))
       ELSE IF h.some
       THEN Some(Size(IF caret THEN "CH" ELSE "H", <<h.val>>))
       ELSE None

parse_dims(content, caret0) ==
    LET parts == Split(content, ",")
        w == IF Len(parts[1]) = 0 THEN None ELSE OkOpt(ParseU32(parts[1]))
        hasCaret == Len(parts[2]) > 0 /\ parts[2][1] = "^"
        h == IF Len(parts[2]) = 0 THEN None
             ELSE IF hasCaret THEN OkOpt(ParseU32(Tail(parts[2])))
             ELSE OkOpt(ParseU32(parts[2]))
        caret == caret0 \/ hasCaret
    IN IF Len(parts) # 2 THEN None
       ELSE IF w.some /\ h.some
       THEN Some(Size(IF caret THEN "CWH" ELSE "WH", <<w.val, h.val>>))
       ELSE IF w.some
       THEN Some(Size(IF caret THEN "CW" ELSE "W", <<w.val>>))
       ELSE IF h.some
       THEN Some(Size(IF caret THEN "CH" ELSE "H", <<h.val>>))
       ELSE None

parse_content(content, caret) ==
    IF StartsWith(content, <<"p", "c", "t", ":">>)
    THEN parse_pct(Drop(content, 4), caret)
    ELSE IF StartsWith(content, <<"!">>) THEN parse_fit(Drop(content, 1), caret)
    ELSE IF Contains(content, ",") THEN parse_dims(content, caret)
    ELSE None

SizeFromStr(s0) ==
    LET s == ToLower(Trim(s0))
        caret == StartsWith(s, <<"^">>)
        content == IF caret THEN Tail(s) ELSE s
        parsed == parse_content(content, caret)
    IN IF s = <<"m", "a", "x">> THEN Ok(Size("Max", <<>>))
       ELSE IF s = <<"^", "m", "a", "x">> THEN Ok(Size("CMax", <<>>))
       ELSE IF parsed.some THEN Ok(parsed.val)
       ELSE Err("InvalidSizeFormat", "", s)

\* (mutant) the marker of the height-only form is written after the comma
SizeDisplay_caret_after_comma(z) ==
    CASE Tag(z) = "Max" -> <<"m", "a", "x">>
      [] Tag(z) = "CMax" -> <<"^", "m", "a", "x">>
      [] Tag(z) = "W" -> ShowNat(Args(z)[1]) \o <<",">>
      [] Tag(z) = "CW" -> <<"^">> \o ShowNat(Args(z)[1]) \o <<",">>
      [] Tag(z) = "H" -> <<",">> \o ShowNat(Args(z)[1])
      [] Tag(z) = "CH" -> <<",", "^">> \o ShowNat(Args(z)[1])
      [] Tag(z) = "Pct" -> <<"p", "c", "t", ":">> \o ShowNat(Args(z)[1])
      [] Tag(z) = "CPct" -> <<"^", "p", "c", "t", ":">> \o ShowNat(Args(z)[1])
      [] Tag(z) = "WH" -> ShowNat(Args(z)[1]) \o <<",">> \o ShowNat(Args(z)[2])
      [] Tag(z) = "CWH" -> <<"^">> \o ShowNat(Args(z)[1]) \o <<",">> \o ShowNat(Args(z)[2])
      [] Tag(z) = "LWH" -> <<"!">> \o ShowNat(Args(z)[1]) \o <<",">> \o ShowNat(Args(z)[2])
      [] Tag(z) = "CLWH" ->
            <<"^", "!">> \o ShowNat(Args(z)[1]) \o <<",">> \o ShowNat(Args(z)[2])

SizeDisplay(z) ==
    CASE Tag(z) = "Max" -> <<"m", "a", "x">>
      [] Tag(z) = "CMax" -> <<"^", "m", "a", "x">>
      [] Tag(z) = "W" -> ShowNat(Args(z)[1]) \o <<",">>
      [] Tag(z) = "CW" -> <<"^">> \o ShowNat(Args(z)[1]) \o <<",">>
      [] Tag(z) = "H" -> <<",">> \o ShowNat(Args(z)[1])
      [] Tag(z) = "CH" -> <<"^", ",">> \o ShowNat(Args(z)[1])
      [] Tag(z) = "Pct" -> <<"p", "c", "t", ":">> \o ShowNat(Args(z)[1])
      [] Tag(z) = "CPct" -> <<"^", "p", "c", "t", ":">> \o ShowNat(Args(z)[1])
      [] Tag(z) = "WH" -> ShowNat(Args(z)[1]) \o <<",">> \o ShowNat(Args(z)[2])
      [] Tag(z) = "CWH" -> <<"^">> \o ShowNat(Args(z)[1]) \o <<",">> \o ShowNat(Args(z)[2])
      [] Tag(z) = "LWH" -> <<"!">> \o ShowNat(Args(z)[1]) \o <<",">> \o ShowNat(Args(z)[2])
      [] Tag(z) = "CLWH" ->
            <<"^", "!">> \o ShowNat(Args(z)[1]) \o <<",">> \o ShowNat(Args(z)[2])

-----------------------------------------------------------------------------
(* Rotation: image/rotation.rs *)

Rotation(tag, angle) == [tag |-> tag, angle |-> angle]

\* #[derive(PartialEq)] for Rotation
RotationEq(r1, r2) == r1.tag = r2.tag /\ FEq(r1.angle, r2.angle)

\* (mutant) the '!' is stripped and forgotten
RotationFromStr_mirror_lost(s) ==
    LET s_trimmed == Trim(s)
        is_mirror == StartsWith(s, <<"!">>)
        angle_str == IF is_mirror THEN Tail(s) ELSE s
        angle == ParseF32(angle_str)
    IN IF Len(s_trimmed) = 0 THEN Err("BadRequest", "Invalid rotation", <<>>)
       ELSE IF ~angle.ok THEN Err("BadRequest", "Invalid rotation", <<>>)
       ELSE Ok(Rotation("Degrees", angle.val))

RotationFromStr(s) ==
    LET s_trimmed == Trim(s)
        is_mirror == StartsWith(s, <<"!">>)
        angle_str == IF is_mirror THEN Tail(s) ELSE s
        angle == ParseF32(angle_str)
    IN IF Len(s_trimmed) = 0 THEN Err("BadRequest", "Invalid rotation", <<>>)
       ELSE IF ~angle.ok THEN Err("BadRequest", "Invalid rotation", <<>>)
       ELSE IF is_mirror THEN Ok(Rotation("MirrorDegrees", angle.val))
       ELSE Ok(Rotation("Degrees", angle.val))

RotationDisplay(r) ==
    IF r.tag = "Degrees" THEN ShowF32(r.angle)
    ELSE <<"!">> \o ShowF32(r.angle)

-----------------------------------------------------------------------------
(* Quality and Format: image/quality.rs, image/format.rs *)

QualityFromStr(s) ==
    LET s_trimmed == ToLower(Trim(s))
    IN CASE s_trimmed = <<"d", "e", "f", "a", "u", "l", "t">> -> Ok("Default")
         [] s_trimmed = <<"c", "o", "l", "o", "r">> -> Ok("Color")
         [] s_trimmed = <<"g", "r", "a", "y">> -> Ok("Gray")
         [] s_trimmed = <<"b", "i", "t", "o", "n", "a", "l">> -> Ok("Bitonal")
         [] OTHER -> Err("InvalidQualityFormat", "", s)

QualityDisplay(q) ==
    CASE q = "Default" -> <<"d", "e", "f", "a", "u", "l", "t">>
      [] q = "Color" -> <<"c", "o", "l", "o", "r">>
      [] q = "Gray" -> <<"g", "r", "a", "y">>
      [] q = "Bitonal" -> <<"b", "i", "t", "o", "n", "a", "l">>

FormatFromStr(s) ==
    LET s_trimmed == ToLower(Trim(s))
    IN CASE s_trimmed = <<"j", "p", "g">> -> Ok("Jpg")
         [] s_trimmed = <<"t", "i", "f">> -> Ok("Tif")
         [] s_trimmed = <<"p", "n", "g">> -> Ok("Png")
         [] s_trimmed = <<"g", "i", "f">> -> Ok("Gif")
         [] s_trimmed = <<"j", "p", "2">> -> Ok("Jp2")
         [] s_trimmed = <<"p", "d", "f">> -> Ok("Pdf")
         [] s_trimmed = <<"w", "e", "b", "p">> -> Ok("Webp")
         [] OTHER -> Err("InvalidFormat", "", s)

FormatDisplay(f) ==
    CASE f = "Jpg" -> <<"j", "p", "g">>
      [] f = "Tif" -> <<"t", "i", "f">>
      [] f = "Png" -> <<"p", "n", "g">>
      [] f = "Gif" -> <<"g", "i", "f">>
      [] f = "Jp2" -> <<"j", "p", "2">>
      [] f = "Pdf" -> <<"p", "d", "f">>
      [] f = "Webp" -> <<"w", "e", "b", "p">>

-----------------------------------------------------------------------------
(* Bytes.  A Rust String is a UTF-8 byte sequence: a character of the      *)
(* model is one byte, written as its ASCII character when printable and    *)
(* as "xHH" otherwise (and for the backtick, which a TLA+ string cannot    *)
(* hold).                                                                  *)

Ascii == <<" ", "!", "\"", "#", "$", "%", "&", "'", "(", ")", "*", "+", ",",
           "-", ".", "/", "0", "1", "2", "3", "4", "5", "6", "7", "8", "9",
           ":", ";", "<", "=", ">", "?", "@", "A", "B", "C", "D", "E", "F",
           "G", "H", "I", "J", "K", "L", "M", "N", "O", "P", "Q", "R", "S",
           "T", "U", "V", "W", "X", "Y", "Z", "[", "\\", "]", "^", "_", "x60",
           "a", "b", "c", "d", "e", "f", "g", "h", "i", "j", "k", "l", "m",
           "n", "o", "p", "q", "r", "s", "t", "u", "v", "w", "x", "y", "z",
           "{", "|", "}", "~">>
HexUpper == <<"0", "1", "2", "3", "4", "5", "6", "7", "8", "9",
              "A", "B", "C", "D", "E", "F">>

ByteChar(b) ==
    IF b >= 32 /\ b <= 126 THEN Ascii[b - 31]
    ELSE "x" \o HexUpper[(b \div 16) + 1] \o HexUpper[(b % 16) + 1]

CharByte(c) ==
    IF IndexIn(c, Ascii) # 0 THEN IndexIn(c, Ascii) + 31
    ELSE CHOOSE b \in 0..255 : ByteChar(b) = c

\* urlencoding: from_hex_digit
IsHex(c) == IndexIn(LowerChar(c), <<"0", "1", "2", "3", "4", "5", "6", "7", "8",
                                    "9", "a", "b", "c", "d", "e", "f">>) # 0
HexVal(c) == IndexIn(LowerChar(c), <<"0", "1", "2", "3", "4", "5", "6", "7", "8",
                                     "9", "a", "b", "c", "d", "e", "f">>) - 1

\* urlencoding::decode_binary: %HH becomes the byte HH; a '%' that is not
\* followed by two hex digits is kept as it is
RECURSIVE decode_binary(_)
decode_binary(data) ==
    IF Len(data) = 0 THEN <<>>
    ELSE IF data[1] # "%" THEN <<data[1]>> \o decode_binary(Tail(data))
    ELSE LET rest == Tail(data)
         IN IF Len(rest) < 2 THEN <<"%">> \o rest
            ELSE IF IsHex(rest[1]) /\ IsHex(rest[2])
            THEN <<ByteChar(16 * HexVal(rest[1]) + HexVal(rest[2]))>>
                     \o decode_binary(Drop(rest, 2))
            ELSE IF IsHex(rest[1])
            THEN <<"%", rest[1]>> \o decode_binary(Drop(rest, 1))
            ELSE <<"%">> \o decode_binary(rest)

\* String::from_utf8: whether the bytes are well-formed UTF-8
IsCont(s, i) == Len(s) >= i /\ CharByte(s[i]) >= 128 /\ CharByte(s[i]) <= 191
RECURSIVE Utf8Valid(_)
Utf8Valid(s) ==
    IF Len(s) = 0 THEN TRUE
    ELSE LET b == CharByte(s[1])
             b2 == CharByte(s[2])
         IN IF b < 128 THEN Utf8Valid(Tail(s))
            ELSE IF b >= 194 /\ b <= 223
            THEN IsCont(s, 2) /\ Utf8Valid(Drop(s, 2))
            ELSE IF b >= 224 /\ b <= 239
            THEN /\ IsCont(s, 2) /\ IsCont(s, 3)
                 /\ (b = 224 => b2 >= 160)
                 /\ (b = 237 => b2 <= 159)
                 /\ Utf8Valid(Drop(s, 3))
            ELSE IF b >= 240 /\ b <= 244
            THEN /\ IsCont(s, 2) /\ IsCont(s, 3) /\ IsCont(s, 4)
                 /\ (b = 240 => b2 >= 144)
                 /\ (b = 244 => b2 <= 143)
                 /\ Utf8Valid(Drop(s, 4))
            ELSE FALSE

\* urlencoding::encode: every byte but ALPHA, DIGIT, '-', '_', '.', '~'
\* becomes %HH in upper-case hex
Unreserved(c) ==
    \/ IsDigit(c)
    \/ IndexIn(c, UpperCase) # 0
    \/ IndexIn(c, LowerCase) # 0
    \/ c \in {"-", "_", ".", "~"}

\* (mutant) '%' is left as it is
RECURSIVE url_encode_keep_percent(_)
url_encode_keep_percent(value) ==
    IF Len(value) = 0 THEN <<>>
    ELSE (IF Unreserved(value[1]) \/ value[1] = "%" THEN <<value[1]>>
          ELSE <<"%", HexUpper[(CharByte(value[1]) \div 16) + 1],
                 HexUpper[(CharByte(value[1]) % 16) + 1]>>)
         \o url_encode_keep_percent(Tail(value))

RECURSIVE url_encode(_)
url_encode(value) ==
    IF Len(value) = 0 THEN <<>>
    ELSE (IF Unreserved(value[1]) THEN <<value[1]>>
          ELSE <<"%", HexUpper[(CharByte(value[1]) \div 16) + 1],
                 HexUpper[(CharByte(value[1]) % 16) + 1]>>)
         \o url_encode(Tail(value))

-----------------------------------------------------------------------------
(* IiifImage: image/mod.rs *)

url_decode(value) ==
    LET decoded == decode_binary(value)
    IN IF Utf8Valid(decoded) THEN Ok(decoded)
       ELSE Err("BadRequest", "Invalid identifier: ", value)

validate_identifier(identifier) ==
    IF Len(identifier) = 0
    THEN Err("InvalidIiifURL", "Identifier cannot be empty", <<>>)
    ELSE Ok(identifier)

\* (mutant) the segment is split at its last '.' only: more dots are accepted
parse_quality_format_last_dot(segment) ==
    LET parts == Split(segment, ".")
    IN IF Len(parts) < 2
       THEN Err("InvalidIiifURL", "Invalid quality.format segment: ", segment)
       ELSE Ok(<<Join(SubSeq(parts, 1, Len(parts) - 1), <<".">>),
                 parts[Len(parts)]>>)

parse_quality_format(segment) ==
    LET parts == Split(segment, ".")
    IN IF Len(parts) # 2
       THEN Err("InvalidIiifURL", "Invalid quality.format segment: ", segment)
       ELSE Ok(<<parts[1], parts[2]>>)

\* parse_param::<T>(value, param_name), T given by its FromStr result
parse_param(parsed, value, msg) ==
    IF parsed.ok THEN parsed ELSE Err("InvalidIiifURL", msg, value)

IiifImage(identifier, region, size, rotation, quality, format) ==
    [identifier |-> identifier, region |-> region, size |-> size,
     rotation |-> rotation, quality |-> quality, format |-> format]

\* (mutant) the first five segments are taken
first_five(url_segs) == SubSeq(url_segs, 1, 5)

\* url_segs[url_segs.len() - 5..]
last_five(url_segs) == SubSeq(url_segs, Len(url_segs) - 4, Len(url_segs))

try_from(url_segs) ==
    IF Len(url_segs) < 5
    THEN Err("InvalidIiifURL", "URL does not have enough segments", <<>>)
    ELSE
    LET params == last_five(url_segs)
        qf == parse_quality_format(params[5])
        decoded == url_decode(params[1])
        identifier == validate_identifier(decoded.val)
        region == parse_param(RegionFromStr(params[2]), params[2],
                              "Invalid region format: ")
        size == parse_param(SizeFromStr(params[3]), params[3],
                            "Invalid size format: ")
        rotation == parse_param(RotationFromStr(params[4]), params[4],
                                "Invalid rotation format: ")
        quality == parse_param(QualityFromStr(qf.val[1]), qf.val[1],
                               "Invalid quality format: ")
        format == parse_param(FormatFromStr(qf.val[2]), qf.val[2],
                              "Invalid format format: ")
    IN IF ~qf.ok THEN qf
       ELSE IF ~decoded.ok THEN decoded
       ELSE IF ~identifier.ok THEN identifier
       ELSE IF ~region.ok THEN region
       ELSE IF ~size.ok THEN size
       ELSE IF ~rotation.ok THEN rotation
       ELSE IF ~quality.ok THEN quality
       ELSE IF ~format.ok THEN format
       ELSE Ok(IiifImage(identifier.val, region.val, size.val, rotation.val,
                         quality.val, format.val))

\* impl Display for IiifImage: the canonical string, the cache key
IiifImageDisplay(r) ==
    url_encode(r.identifier) \o <<"/">> \o RegionDisplay(r.region) \o <<"/">>
        \o SizeDisplay(r.size) \o <<"/">> \o RotationDisplay(r.rotation)
        \o <<"/">> \o QualityDisplay(r.quality) \o <<".">>
        \o FormatDisplay(r.format)

-----------------------------------------------------------------------------
(* The pure operations are examined one call at a time: `call` holds the   *)
(* operation and its input, `ret` what it returned.                        *)

Procs == {"p1", "p2"}

Pending == Err("pending", "", <<>>)
Call(fn, input) == [fn |-> fn, input |-> input]
NoCall == Call("none", <<>>)

\* no invocation of process is under way and the cache is empty
ProcIdle ==
    /\ pc = [p \in Procs |-> "idle"]
    /\ req = [p \in Procs |-> <<>>]
    /\ image = [p \in Procs |-> <<>>]
    /\ bytes = [p \in Procs |-> <<>>]
    /\ result = [p \in Procs |-> Pending]
    /\ log = [p \in Procs |-> <<>>]
    /\ cache0 = [p \in Procs |-> {}]
    /\ cache = {}

-----------------------------------------------------------------------------
(* Region::get_region on bounded and on the repository's test inputs *)

MaxDim == 3

Dims == 1..MaxDim
Coords == 0..(MaxDim + 1)
\* percentages: the multiples of 25 from -25 to 125, and NaN
PctVals == {NormFin(TRUE, 25, 0), F(0, 0), F(25, 0), F(50, 0), F(75, 0),
            F(100, 0), F(125, 0), FNaN}

RegionInputs ==
    {<<RegionRect(c[1], c[2], c[3], c[4]), d[1], d[2]>> :
        c \in Coords \X Coords \X Coords \X Coords, d \in Dims \X Dims}
    \cup {<<RegionPct(c[1], c[2], c[3], c[4]), d[1], d[2]>> :
        c \in PctVals \X PctVals \X PctVals \X PctVals, d \in Dims \X Dims}
    \cup {<<r, d[1], d[2]>> : r \in {RegionFull, RegionSquare}, d \in Dims \X Dims}
    \* test_region_get_region
    \cup {<<r, 300, 200>> :
            r \in {RegionFull, RegionSquare, RegionRect(125, 15, 120, 140),
                   RegionRect(125, 15, 200, 200),
                   RegionPct(F(416, 1), F(75, 1), F(40, 0), F(70, 0)),
                   RegionPct(F(416, 1), F(75, 1), F(666, 1), F(100, 0))}}

InitRegion ==
    /\ call \in {Call("get_region", i) : i \in RegionInputs}
    /\ ret = Pending
    /\ ProcIdle

GetRegion ==
    /\ call.fn = "get_region"
    /\ ret = Pending
    /\ ret' = get_region(call.input[1], call.input[2], call.input[3])
    /\ UNCHANGED <<call, procVars>>

NextRegion == GetRegion
SpecRegion == InitRegion /\ [][NextRegion]_vars

Returned == ret.err.kind # "pending"
InRegion(tag) == call.fn = "get_region" /\ Tag(call.input[1]) = tag
srcW == call.input[2]
srcH == call.input[3]
RegionArg(i) == Args(call.input[1])[i]

\* C9: Region::Rect(x,y,w,h) on srcW x srcH is a RegionIsInvalid error when
\* w = 0 or h = 0 or x >= srcW or y >= srcH, and in every other case
\* succeeds with (x, y, min(w, srcW - x), min(h, srcH - y)): an extent past
\* the edge is truncated, never rejected.
C9_RectResolved ==
    (InRegion("Rect") /\ Returned) =>
        LET x == RegionArg(1)
            y == RegionArg(2)
            w == RegionArg(3)
            h == RegionArg(4)
        IN IF w = 0 \/ h = 0 \/ x >= srcW \/ y >= srcH
           THEN ~ret.ok /\ ret.err.kind = "RegionIsInvalid"
           ELSE /\ ret.ok
                /\ ret.val[1] = x /\ ret.val[2] = y
                /\ ret.val[3] = (IF w <= srcW - x THEN w ELSE srcW - x)
                /\ ret.val[4] = (IF h <= srcH - y THEN h ELSE srcH - y)

\* C9 witness: Rect(125,15,200,200) on 300x200 was resolved to
\* (125,15,175,185), truncated at the right and bottom edges
C9_Witness ==
    /\ InRegion("Rect") /\ Returned
    /\ call.input = <<RegionRect(125, 15, 200, 200), 300, 200>>
    /\ ret.ok /\ ret.val = <<125, 15, 175, 185>>

\* a percentage of the modelled inputs in units of 1/10 percent
Tenths(f) == (IF f.neg THEN 0 - f.m ELSE f.m) * (IF f.e = 0 THEN 10 ELSE 1)
IsNaN(f) == f.k = "nan"
\* round(dim * t / 1000), halves away from zero, of a signed t
RoundPixels(dim, t) ==
    IF t >= 0 THEN (2 * dim * t + 1000) \div 2000
    ELSE 0 - ((2 * dim * (0 - t) + 1000) \div 2000)
\* the same, cast to u32: a negative value becomes 0
SaturatedPixels(dim, t) == IF t < 0 THEN 0 ELSE RoundPixels(dim, t)

PctIsError ==
    \/ \E i \in {3, 4} : ~IsNaN(RegionArg(i)) /\ Tenths(RegionArg(i)) = 0
    \/ \E i \in {1, 2} : ~IsNaN(RegionArg(i)) /\ Tenths(RegionArg(i)) >= 1000
\* w (i = 3) or h (i = 4) clamped to at most 100 - x or 100 - y, in tenths;
\* f32::min takes the other operand when one is NaN
PctClamped(i) ==
    LET o == RegionArg(i - 2)
        e == RegionArg(i)
    IN IF IsNaN(e) THEN 1000 - Tenths(o)
       ELSE IF IsNaN(o) \/ Tenths(e) <= 1000 - Tenths(o) THEN Tenths(e)
       ELSE 1000 - Tenths(o)
\* the clamped w or h is NaN only when both operands of min are
PctClampedIsNaN(i) == IsNaN(RegionArg(i)) /\ IsNaN(RegionArg(i - 2))
PctDim(i) == IF i \in {1, 3} THEN srcW ELSE srcH

\* C10 (as claimed): Region::Pct is an error when w = 0 or h = 0 or x >= 100
\* or y >= 100; otherwise w and h are clamped to 100 - x and 100 - y and each
\* of x, y, w, h becomes round(dimension * pct / 100), halves away from zero.
C10_PctAsClaimed ==
    (InRegion("Pct") /\ Returned /\ \A i \in 1..4 : ~IsNaN(RegionArg(i))) =>
        IF PctIsError THEN ~ret.ok
        ELSE /\ ret.ok
             /\ \A i \in {1, 2} :
                    ret.val[i] = RoundPixels(PctDim(i), Tenths(RegionArg(i)))
             /\ \A i \in {3, 4} :
                    ret.val[i] = RoundPixels(PctDim(i), PctClamped(i))

\* C10 (amended): as claimed, and the rounded value is cast to u32 with
\* saturation: a negative product and a NaN give 0.  A NaN percentage meets
\* no error condition, and the clamp min(w, 100 - x) ignores a NaN operand.
C10_PctResolved ==
    (InRegion("Pct") /\ Returned) =>
        IF PctIsError THEN ~ret.ok /\ ret.err.kind = "RegionIsInvalid"
        ELSE /\ ret.ok
             /\ \A i \in {1, 2} :
                    ret.val[i] = (IF IsNaN(RegionArg(i)) THEN 0
                                  ELSE SaturatedPixels(PctDim(i),
                                                       Tenths(RegionArg(i))))
             /\ \A i \in {3, 4} :
                    ret.val[i] = (IF PctClampedIsNaN(i) THEN 0
                                  ELSE SaturatedPixels(PctDim(i), PctClamped(i)))

\* C10 witness: Pct(41.6,7.5,66.6,100) on 300x200 was resolved to
\* (125,15,175,185): w and h were clamped to 58.4 and 92.5 percent
C10_Witness ==
    /\ InRegion("Pct") /\ Returned
    /\ call.input = <<RegionPct(F(416, 1), F(75, 1), F(666, 1), F(100, 0)),
                      300, 200>>
    /\ ret.ok /\ ret.val = <<125, 15, 175, 185>>

-----------------------------------------------------------------------------
(* IiifImage::try_from on the path segments of a Url.  Url::path_segments  *)
(* gives the '/'-delimited segments of the path, at least one, with the    *)
(* percent escapes of the request kept as they were written.               *)

MaxPrefix == 1

IdToks == {<<"d", "e", "m", "o", ".", "j", "p", "g">>, <<>>, <<"a", "%", "2", "F", "b">>, <<"%", "2", "5", "3", "C">>, <<"%", "z", "z">>, <<"%", "F", "F">>}
RegionToks == {<<"f", "u", "l", "l">>, <<"f", "u", "l", "l", "1">>}
SizeToks == {<<"m", "a", "x">>, <<"b", "i", "g">>}
RotationToks == {<<"0">>, <<"r">>}
QualityFormatToks ==
    {<<"d", "e", "f", "a", "u", "l", "t", ".", "j", "p", "g">>, <<"d", "e", "f", "a", "u", "l", "t">>, <<"d", "f", "l", "t", ".", "j", "p", "g">>, <<"d", "e", "f", "a", "u", "l", "t", ".", "j", "p", "e", "g">>,
     <<"d", "e", "f", "a", "u", "l", "t", ".", "j", "p", "g", ".", "p", "n", "g">>, <<"g", "r", "a", "y", ".", "p", "n", "g">>}
PrefixToks == {<<"i", "m", "a", "g", "e", "-", "s", "e", "r", "v", "i", "c", "e">>, <<"f", "u", "l", "l">>}

SeqsUpTo(S, n) == UNION {[1..k -> S] : k \in 0..n}

\* paths of fewer than five segments
ShortUrls ==
    {u \in SeqsUpTo({<<"i", "m", "a", "g", "e", "-", "s", "e", "r", "v", "i", "c", "e">>, <<"d", "e", "m", "o", ".", "j", "p", "g">>, <<"f", "u", "l", "l">>}, 4) : Len(u) >= 1}
\* a prefix of any length up to MaxPrefix, then five segments
LongUrls ==
    {pre \o <<i, r, z, o, q>> :
        pre \in SeqsUpTo(PrefixToks, MaxPrefix), i \in IdToks, r \in RegionToks,
        z \in SizeToks, o \in RotationToks, q \in QualityFormatToks}

InitUrl ==
    /\ call \in {Call("try_from", u) : u \in ShortUrls \cup LongUrls}
    /\ ret = Pending
    /\ ProcIdle

TryFrom ==
    /\ call.fn = "try_from"
    /\ ret = Pending
    /\ ret' = try_from(call.input)
    /\ UNCHANGED <<call, procVars>>

NextUrl == TryFrom
SpecUrl == InitUrl /\ [][NextUrl]_vars

InTryFrom == call.fn = "try_from" /\ Returned
NumSegs == Len(call.input)
\* the i-th of the last five segments
Seg(i) == call.input[NumSegs - 5 + i]
NotEnough ==
    [kind |-> "InvalidIiifURL", msg |-> "URL does not have enough segments",
     tok |-> <<>>]
NumDots(s) == Cardinality({i \in 1..Len(s) : s[i] = "."})
\* the text before and after the only '.' of s
BeforeDot(s) == SubSeq(s, 1, (CHOOSE i \in 1..Len(s) : s[i] = ".") - 1)
AfterDot(s) == SubSeq(s, (CHOOSE i \in 1..Len(s) : s[i] = ".") + 1, Len(s))
\* every '%' of s starts an escape %HH
WellEscaped(s) ==
    \A i \in 1..Len(s) :
        s[i] = "%" => i + 2 <= Len(s) /\ IsHex(s[i + 1]) /\ IsHex(s[i + 2])

\* what each of the five segments is on its own
IdOk(s) == url_decode(s).ok /\ Len(url_decode(s).val) > 0
QfOk(s) ==
    /\ NumDots(s) = 1
    /\ QualityFromStr(BeforeDot(s)).ok
    /\ FormatFromStr(AfterDot(s)).ok
AllFiveOk ==
    /\ IdOk(Seg(1)) /\ RegionFromStr(Seg(2)).ok /\ SizeFromStr(Seg(3)).ok
    /\ RotationFromStr(Seg(4)).ok /\ QfOk(Seg(5))

FirstErrorInSegmentOrder ==
    IF ~url_decode(Seg(1)).ok
    THEN [kind |-> "BadRequest", msg |-> "Invalid identifier: ", tok |-> Seg(1)]
    ELSE IF ~IdOk(Seg(1))
    THEN [kind |-> "InvalidIiifURL", msg |-> "Identifier cannot be empty",
          tok |-> <<>>]
    ELSE IF ~RegionFromStr(Seg(2)).ok
    THEN [kind |-> "InvalidIiifURL", msg |-> "Invalid region format: ",
          tok |-> Seg(2)]
    ELSE IF ~SizeFromStr(Seg(3)).ok
    THEN [kind |-> "InvalidIiifURL", msg |-> "Invalid size format: ",
          tok |-> Seg(3)]
    ELSE IF ~RotationFromStr(Seg(4)).ok
    THEN [kind |-> "InvalidIiifURL", msg |-> "Invalid rotation format: ",
          tok |-> Seg(4)]
    ELSE IF NumDots(Seg(5)) # 1
    THEN [kind |-> "InvalidIiifURL", msg |-> "Invalid quality.format segment: ",
          tok |-> Seg(5)]
    ELSE IF ~QualityFromStr(BeforeDot(Seg(5))).ok
    THEN [kind |-> "InvalidIiifURL", msg |-> "Invalid quality format: ",
          tok |-> BeforeDot(Seg(5))]
    ELSE [kind |-> "InvalidIiifURL", msg |-> "Invalid format format: ",
          tok |-> AfterDot(Seg(5))]

\* C6: when more than one of the five segments is invalid, try_from reports
\* the error of the first invalid one in the order identifier, region, size,
\* rotation, quality+format, naming the parameter and its raw token.
C6_FirstErrorInSegmentOrder ==
    (InTryFrom /\ NumSegs >= 5 /\ ~ret.ok) => ret.err = FirstErrorInSegmentOrder

\* C7: the identifier is the first of the last five segments percent-decoded
\* exactly once; try_from fails with a decode error when that segment is not
\* validly percent-encoded, and with "Identifier cannot be empty" when the
\* decoded identifier is empty.  (Stated for paths whose quality.format
\* segment splits in two, so that the order of C6 plays no part.)
C7_IdentifierDecodedOnce ==
    (InTryFrom /\ NumSegs >= 5 /\ NumDots(Seg(5)) = 1) =>
        /\ ret.ok => ret.val.identifier = decode_binary(Seg(1))
        /\ ~WellEscaped(Seg(1)) =>
               /\ ~ret.ok
               /\ ret.err.kind = "BadRequest"
               /\ ret.err.msg = "Invalid identifier: "
        /\ (WellEscaped(Seg(1)) /\ Len(decode_binary(Seg(1))) = 0) =>
               /\ ~ret.ok
               /\ ret.err.msg = "Identifier cannot be empty"

\* C8: the last segment is split on '.'; unless that gives exactly two parts
\* try_from fails with InvalidIiifURL "Invalid quality.format segment:
\* <segment>"; with two parts the first is parsed as Quality and the second
\* as Format.
C8_QualityFormatSplit ==
    (InTryFrom /\ NumSegs >= 5) =>
        IF NumDots(Seg(5)) # 1
        THEN /\ ~ret.ok
             /\ ret.err = [kind |-> "InvalidIiifURL",
                           msg |-> "Invalid quality.format segment: ",
                           tok |-> Seg(5)]
        ELSE /\ ret.err.msg # "Invalid quality.format segment: "
             /\ ret.ok =>
                    /\ ret.val.quality = QualityFromStr(BeforeDot(Seg(5))).val
                    /\ ret.val.format = FormatFromStr(AfterDot(Seg(5))).val
             /\ (~ret.ok /\ ret.err.msg = "Invalid quality format: ") =>
                    ret.err.tok = BeforeDot(Seg(5))
             /\ (~ret.ok /\ ret.err.msg = "Invalid format format: ") =>
                    ret.err.tok = AfterDot(Seg(5))
             /\ (IdOk(Seg(1)) /\ RegionFromStr(Seg(2)).ok /\ SizeFromStr(Seg(3)).ok
                 /\ RotationFromStr(Seg(4)).ok) =>
                    (ret.ok <=> QfOk(Seg(5)))

\* C8 witness: .../demo.jpg/full/max/0/default was refused for its last
\* segment (test_url_error)
C8_Witness ==
    /\ InTryFrom /\ NumSegs >= 5 /\ ~ret.ok
    /\ Seg(1) = <<"d", "e", "m", "o", ".", "j", "p", "g">> /\ Seg(5) = <<"d", "e", "f", "a", "u", "l", "t">>
    /\ ret.err.msg = "Invalid quality.format segment: "
    /\ ret.err.tok = <<"d", "e", "f", "a", "u", "l", "t">>

-----------------------------------------------------------------------------
(* The five grammar types taken through parse, Display and parse again, as *)
(* test_roundtrip does for Size                                            *)

MaxTokLen == 3

\* a token is built from the pieces its grammar is made of
NumToks == {<<"1">>, <<"-", "0">>, <<"n", "a", "n">>, <<".", "5">>, <<>>}
RegionTokens ==
    {<<"f", "u", "l", "l">>, <<"F", "U", "L", "L">>, <<" ", "S", "q", "u", "a", "r", "e", " ">>, <<"i", "n", "v", "a", "l", "i", "d">>, <<"1", ",", "2", ",", "3">>, <<"p", "c", "t", ":", "1", ",", "2", ",", "3", ",", "4", ",", "5">>}
    \cup {pre \o Join(p, <<",">>) :
            pre \in {<<>>, <<"p", "c", "t", ":">>, <<"P", "C", "T", ":">>}, p \in [1..4 -> NumToks]}
SizeBodies ==
    {<<"m", "a", "x">>, <<"M", "A", "X">>, <<"p", "c", "t", ":">>}
    \cup {<<"p", "c", "t", ":">> \o n : n \in SeqsUpTo({"0", "1", "5"}, MaxTokLen)}
    \cup {bang \o d : bang \in {<<>>, <<"!">>},
                      d \in SeqsUpTo({",", "^", "1", "0", "x"}, MaxTokLen + 1)}
SizeTokens == {c \o b : c \in {<<>>, <<"^">>}, b \in SizeBodies}
RotationTokens ==
    SeqsUpTo({"!", "-", ".", "0", "5", "9", "N", "a"}, MaxTokLen)
    \cup {<<"3", "6", "0">>, <<"2", "2", ".", "5">>, <<"!", "9", "0">>, <<"!", "1", "8", "0">>, <<" ", "9", "0">>, <<"i", "n", "f">>, <<"-", "i", "n", "f">>, <<"1", "e", "2">>}
QualityTokens ==
    {<<"d", "e", "f", "a", "u", "l", "t">>, <<"D", "e", "f", "a", "u", "l", "t">>, <<" ", "C", "O", "L", "O", "R", " ">>, <<"g", "r", "a", "y">>, <<"b", "i", "t", "o", "n", "a", "l">>, <<>>, <<"g", "r", "e", "y">>}
FormatTokens ==
    {<<"j", "p", "g">>, <<"J", "P", "G">>, <<" ", "t", "i", "f">>, <<"p", "n", "g">>, <<"g", "i", "f">>, <<"j", "p", "2">>, <<"p", "d", "f">>, <<"w", "e", "b", "p">>, <<"j", "p", "e", "g">>,
     <<>>}

GrammarInputs ==
    {<<"Region", s>> : s \in RegionTokens}
    \cup {<<"Size", s>> : s \in SizeTokens}
    \cup {<<"Rotation", s>> : s \in RotationTokens}
    \cup {<<"Quality", s>> : s \in QualityTokens}
    \cup {<<"Format", s>> : s \in FormatTokens}

InitGrammar ==
    /\ call \in {Call("round_trip", i) : i \in GrammarInputs}
    /\ ret = Pending
    /\ ProcIdle

\* parsed, then parsed.to_string(), then the parse of that text
RoundTripOf(first, text, second) ==
    Ok([first |-> first, text |-> text, second |-> second])

RoundTripRegion ==
    /\ call.fn = "round_trip"
    /\ call.input[1] = "Region"
    /\ ~Returned
    /\ LET first == RegionFromStr(call.input[2])
           text == RegionDisplay(first.val)
       IN ret' = IF first.ok THEN RoundTripOf(first.val, text, RegionFromStr(text))
                 ELSE first
    /\ UNCHANGED <<call, procVars>>

RoundTripSize ==
    /\ call.fn = "round_trip"
    /\ call.input[1] = "Size"
    /\ ~Returned
    /\ LET first == SizeFromStr(call.input[2])
           text == SizeDisplay(first.val)
       IN ret' = IF first.ok THEN RoundTripOf(first.val, text, SizeFromStr(text))
                 ELSE first
    /\ UNCHANGED <<call, procVars>>

RoundTripRotation ==
    /\ call.fn = "round_trip"
    /\ call.input[1] = "Rotation"
    /\ ~Returned
    /\ LET first == RotationFromStr(call.input[2])
           text == RotationDisplay(first.val)
       IN ret' = IF first.ok THEN RoundTripOf(first.val, text, RotationFromStr(text))
                 ELSE first
    /\ UNCHANGED <<call, procVars>>

RoundTripQuality ==
    /\ call.fn = "round_trip"
    /\ call.input[1] = "Quality"
    /\ ~Returned
    /\ LET first == QualityFromStr(call.input[2])
           text == QualityDisplay(first.val)
       IN ret' = IF first.ok THEN RoundTripOf(first.val, text, QualityFromStr(text))
                 ELSE first
    /\ UNCHANGED <<call, procVars>>

RoundTripFormat ==
    /\ call.fn = "round_trip"
    /\ call.input[1] = "Format"
    /\ ~Returned
    /\ LET first == FormatFromStr(call.input[2])
           text == FormatDisplay(first.val)
       IN ret' = IF first.ok THEN RoundTripOf(first.val, text, FormatFromStr(text))
                 ELSE first
    /\ UNCHANGED <<call, procVars>>

NextGrammar ==
    \/ RoundTripRegion
    \/ RoundTripSize
    \/ RoundTripRotation
    \/ RoundTripQuality
    \/ RoundTripFormat
SpecGrammar == InitGrammar /\ [][NextGrammar]_vars

\* == of the type: derived PartialEq, f32 fields compared as f32
ValueEq(type, a, b) ==
    CASE type = "Region" -> RegionEq(a, b)
      [] type = "Rotation" -> RotationEq(a, b)
      [] OTHER -> a = b

InRoundTrip == call.fn = "round_trip" /\ Returned /\ ret.ok

\* C4: for each of Region, Size, Rotation, Quality and Format and every text
\* s that parses, rendering the parsed value with Display and parsing the
\* rendered text again succeeds and gives a value equal to the first one.
C4_RoundTrip ==
    InRoundTrip =>
        /\ ret.val.second.ok
        /\ ValueEq(call.input[1], ret.val.second.val, ret.val.first)

-----------------------------------------------------------------------------
(* The canonical string (Display for IiifImage) of two requests.  The      *)
(* fields are values try_from can give: a non-empty identifier and any     *)
(* variant of the five parameter types.                                    *)

CanonIdentifiers == {<<"a">>, <<"a", "/", "b">>, <<"a", "%", "2", "F", "b">>}
CanonRegions ==
    {RegionRect(1, 23, 4, 5), RegionRect(12, 3, 4, 5),
     RegionPct(F(1, 0), F(23, 0), F(4, 0), F(5, 0))}
CanonSizes ==
    {Size("W", <<12>>), Size("H", <<12>>), Size("WH", <<1, 2>>)}
CanonRotations ==
    {Rotation("Degrees", F(0, 0)), Rotation("Degrees", NormFin(TRUE, 0, 0)),
     Rotation("MirrorDegrees", F(0, 0)), Rotation("Degrees", FNaN)}
CanonQualities == {"Default", "Gray"}
CanonFormats == {"Jpg", "Png"}

CanonRequests ==
    {IiifImage(i, r, z, o, q, f) :
        i \in CanonIdentifiers, r \in CanonRegions, z \in CanonSizes,
        o \in CanonRotations, q \in CanonQualities, f \in CanonFormats}

InitCanon ==
    /\ call \in {Call("to_string", <<a, b>>) : a \in CanonRequests, b \in CanonRequests}
    /\ ret = Pending
    /\ ProcIdle

\* a.to_string() and b.to_string()
to_string ==
    /\ call.fn = "to_string"
    /\ ~Returned
    /\ ret' = Ok(<<IiifImageDisplay(call.input[1]), IiifImageDisplay(call.input[2])>>)
    /\ UNCHANGED <<call, procVars>>

NextCanon == to_string
SpecCanon == InitCanon /\ [][NextCanon]_vars

InToString == call.fn = "to_string" /\ Returned
RequestFields == {"identifier", "region", "size", "rotation", "quality", "format"}
\* the fields in which the two requests have different values
DifferingFields == {f \in RequestFields : call.input[1][f] # call.input[2][f]}

-----------------------------------------------------------------------------
(* IiifImage::process against a Storage, one call of it per step.  A       *)
(* raster is modelled by its width, height and pixel mode, an encoded      *)
(* derivative by <<format, width, height, mode>>.                          *)

\* the files of origin_dir: an image, a file that is no image, or no file
OriginFile(identifier) ==
    CASE identifier = <<"d", "e", "m", "o", ".", "j", "p", "g">> -> <<"image", MaxDim, MaxDim - 1>>
      [] identifier = <<"n", "o", "t", "e", "s", ".", "t", "x", "t">> -> <<"text">>
      [] OTHER -> <<>>

Raster(w, h, mode) == [w |-> w, h |-> h, mode |-> mode]
ProcessResult(content_type, data) == [content_type |-> content_type, data |-> data]

\* image::load_from_memory
load_from_memory(origin_file) ==
    IF Len(origin_file) = 3 /\ origin_file[1] = "image"
    THEN Ok(Raster(origin_file[2], origin_file[3], "color"))
    ELSE Err("InternalServerError", "decode", <<>>)

\* DynamicImage::crop: the box is clamped to the image
crop(img, x, y, w, h) ==
    LET cx == Min2(x, img.w)
        cy == Min2(y, img.h)
    IN Raster(Min2(w, img.w - cx), Min2(h, img.h - cy), img.mode)

\* Region::process
region_process(self, img) ==
    LET box == get_region(self, img.w, img.h)
    IN IF box.ok
       THEN Ok(crop(img, box.val[1], box.val[2], box.val[3], box.val[4]))
       ELSE box

\* round(a / b) of non-negative integers, b > 0
RoundDiv(a, b) == (2 * a + b) \div (2 * b)

\* (mutant) every form is served as its upscaling twin
resolve_size_upscaling(self, cropW, cropH) ==
    LET a == Args(self)
    IN CASE Tag(self) \in {"Max", "CMax"} -> Ok(<<cropW, cropH>>)
         [] Tag(self) \in {"W", "CW"} -> Ok(<<a[1], RoundDiv(a[1] * cropH, cropW)>>)
         [] Tag(self) \in {"H", "CH"} -> Ok(<<RoundDiv(a[1] * cropW, cropH), a[1]>>)
         [] Tag(self) \in {"Pct", "CPct"} ->
                Ok(<<RoundDiv(cropW * a[1], 100), RoundDiv(cropH * a[1], 100)>>)
         [] Tag(self) \in {"WH", "CWH"} -> Ok(<<a[1], a[2]>>)
         [] Tag(self) \in {"LWH", "CLWH"} ->
                Ok(IF a[1] * cropH <= a[2] * cropW
                   THEN <<a[1], RoundDiv(a[1] * cropH, cropW)>>
                   ELSE <<RoundDiv(a[2] * cropW, cropH), a[2]>>)

\* the target dimensions of the Size stage on a cropW x cropH crop box
resolve_size(self, cropW, cropH) ==
    LET a == Args(self)
        refuse == Err("SizeError", "", SizeDisplay(self))
        fit == IF a[1] * cropH <= a[2] * cropW
               THEN <<a[1], RoundDiv(a[1] * cropH, cropW)>>
               ELSE <<RoundDiv(a[2] * cropW, cropH), a[2]>>
    IN CASE Tag(self) \in {"Max", "CMax"} -> Ok(<<cropW, cropH>>)
         [] Tag(self) \in {"W", "CW"} ->
                IF Tag(self) = "W" /\ a[1] > cropW THEN refuse
                ELSE Ok(<<a[1], RoundDiv(a[1] * cropH, cropW)>>)
         [] Tag(self) \in {"H", "CH"} ->
                IF Tag(self) = "H" /\ a[1] > cropH THEN refuse
                ELSE Ok(<<RoundDiv(a[1] * cropW, cropH), a[1]>>)
         [] Tag(self) \in {"Pct", "CPct"} ->
                IF Tag(self) = "Pct" /\ a[1] > 100 THEN refuse
                ELSE Ok(<<RoundDiv(cropW * a[1], 100), RoundDiv(cropH * a[1], 100)>>)
         [] Tag(self) \in {"WH", "CWH"} ->
                IF Tag(self) = "WH" /\ (a[1] > cropW \/ a[2] > cropH) THEN refuse
                ELSE Ok(<<a[1], a[2]>>)
         [] Tag(self) \in {"LWH", "CLWH"} ->
                IF Tag(self) = "LWH" /\ (fit[1] > cropW \/ fit[2] > cropH)
                THEN refuse
                ELSE Ok(fit)

\* Size::process
size_process(self, img) ==
    LET dims == resolve_size(self, img.w, img.h)
    IN IF dims.ok THEN Ok(Raster(dims.val[1], dims.val[2], img.mode)) ELSE dims

\* (mutant) 360 is outside the range
rotation_out_of_range_360(angle) ==
    /\ angle.k # "nan"
    /\ \/ angle.k = "fin" /\ angle.neg /\ angle.m # 0
       \/ angle.k = "inf"
       \/ angle.k = "fin" /\ ~angle.neg /\ angle.m >= 360 * Pow10(angle.e)

\* the range check of Rotation::process
rotation_out_of_range(angle) ==
    /\ angle.k # "nan"
    /\ \/ angle.k = "fin" /\ angle.neg /\ angle.m # 0
       \/ angle.k = "inf"
       \/ angle.k = "fin" /\ ~angle.neg /\ angle.m > 360 * Pow10(angle.e)

is_multiple_of_90(angle) ==
    angle.k = "fin" /\ angle.e = 0 /\ angle.m % 90 = 0

\* (mutant) a quarter turn keeps width and height as they were
standard_rotate_no_swap(img, angle) == img

standard_rotate(img, angle) ==
    IF ~angle.neg /\ angle.m \in {90, 270} THEN Raster(img.h, img.w, img.mode)
    ELSE img

\* cos and sin of an angle of the model, in units of 1/100000; the angle is
\* given in tenths of a degree
Trig(tenths) ==
    CASE tenths = 225 -> <<92388, 38268>>
      [] tenths = 300 -> <<86603, 50000>>
      [] tenths = 450 -> <<70711, 70711>>
      [] tenths = 800 -> <<17365, 98481>>
      [] tenths = 1350 -> <<0 - 70711, 70711>>
      [] tenths = 2000 -> <<0 - 93969, 0 - 34202>>
      [] tenths = 3000 -> <<50000, 0 - 86603>>
AngleTenths(angle) == angle.m * (IF angle.e = 0 THEN 10 ELSE 1)

\* (n / d).round() as u32 for d > 0: halves away from zero, negatives to 0
RoundSat(n, d) == IF n < 0 THEN 0 ELSE (2 * n + d) \div (2 * d)

\* a panic unwinds out of the call: nothing is returned
Panic == Err("panic", "Image index out of bounds", <<>>)

\* rotate: the canvas is round(w cos + h sin) by round(w sin + h cos), the
\* source is copied into it at the offset that would centre it (put_pixel
\* panics outside the canvas), and rotate_about_center keeps the canvas
rotate(img, angle) ==
    IF angle.k # "fin" THEN Panic
    ELSE
    LET cs == Trig(AngleTenths(angle))
        new_width == RoundSat(img.w * cs[1] + img.h * cs[2], 100000)
        new_height == RoundSat(img.w * cs[2] + img.h * cs[1], 100000)
        off_x == RoundSat(new_width - img.w, 2)
        off_y == RoundSat(new_height - img.h, 2)
    IN IF (img.w - 1) + off_x >= new_width \/ (img.h - 1) + off_y >= new_height
       THEN Panic
       ELSE Ok(Raster(new_width, new_height, "color"))

\* Rotation::process; fliph changes no dimension
rotation_process(self, img) ==
    IF rotation_out_of_range(self.angle)
    THEN Err("BadRequest", "Rotation angle is out of range", <<>>)
    ELSE IF is_multiple_of_90(self.angle)
    THEN Ok(standard_rotate(img, self.angle))
    ELSE rotate(img, self.angle)

\* the Bitonal arm of Quality::process on the luminance of each pixel, as
\* image.to_luma8() gives it, row by row
threshold == 170

\* (mutant) the cut is at 128
bitonal_pixel_128(luma) == IF luma > 128 THEN 255 ELSE 0

bitonal_pixel(luma) == IF luma > threshold THEN 255 ELSE 0

LumaImage(w, h, px) == [w |-> w, h |-> h, px |-> px]
\* imageproc::map::map_pixels with the closure above
bitonal(gray_image) ==
    LumaImage(gray_image.w, gray_image.h,
              [i \in DOMAIN gray_image.px |-> bitonal_pixel(gray_image.px[i])])

\* Quality::process
quality_process(self, img) ==
    CASE self \in {"Default", "Color"} -> Ok(img)
      [] self = "Gray" -> Ok(Raster(img.w, img.h, "gray"))
      [] self = "Bitonal" -> Ok(Raster(img.w, img.h, "bitonal"))

\* Format::process
format_process(self, img) ==
    IF self = "Jp2"
    THEN Err("ImageEncodeFailed", "JPEG 2000 encoding not yet implemented", <<>>)
    ELSE Ok(<<self, img.w, img.h, img.mode>>)

\* enum Format
Formats == {"Jpg", "Tif", "Png", "Gif", "Jp2", "Pdf", "Webp"}

\* (mutant) webp is announced as png
get_content_type_webp_as_png(self) ==
    CASE self = "Jpg" -> "image/jpeg"
      [] self = "Webp" -> "image/png"
      [] self = "Tif" -> "image/tiff"
      [] self = "Jp2" -> "image/jp2"
      [] self = "Pdf" -> "application/pdf"
      [] OTHER -> "image/png"

get_content_type(self) ==
    CASE self = "Jpg" -> "image/jpeg"
      [] self = "Png" -> "image/png"
      [] self = "Gif" -> "image/gif"
      [] self = "Webp" -> "image/webp"
      [] self = "Tif" -> "image/tiff"
      [] self = "Jp2" -> "image/jp2"
      [] self = "Pdf" -> "application/pdf"

\* (mutant) the derivative is filed under the identifier alone
CacheKey_identifier_only(r) == url_encode(r.identifier)

\* the derivative cache: the files of iiif_dir, as <<path, bytes>>
CacheKey(r) == IiifImageDisplay(r)
CacheHas(c, key) == \E f \in c : f[1] = key
CacheGet(c, key) == (CHOOSE f \in c : f[1] = key)[2]
CachePut(c, key, data) == {f \in c : f[1] # key} \cup {<<key, data>>}

\* the requests served: one that succeeds plainly, one that every transform
\* stage changes, and one stopped at each step that can fail
PlainRequest ==
    IiifImage(<<"d", "e", "m", "o", ".", "j", "p", "g">>, RegionFull, Size("Max", <<>>),
              Rotation("Degrees", F(0, 0)), "Default", "Jpg")
ProcRequests ==
    {PlainRequest,
     IiifImage(<<"d", "e", "m", "o", ".", "j", "p", "g">>, RegionRect(1, 0, MaxDim, MaxDim), Size("CW", <<MaxDim + 1>>),
               Rotation("MirrorDegrees", F(90, 0)), "Gray", "Png"),
     [PlainRequest EXCEPT !.identifier = <<"n", "o", "n", "e", ".", "j", "p", "g">>],
     [PlainRequest EXCEPT !.identifier = <<"n", "o", "t", "e", "s", ".", "t", "x", "t">>],
     [PlainRequest EXCEPT !.region = RegionRect(MaxDim, 0, 1, 1)],
     [PlainRequest EXCEPT !.size = Size("W", <<MaxDim + 1>>)],
     [PlainRequest EXCEPT !.rotation = Rotation("Degrees", F(400, 0))],
     [PlainRequest EXCEPT !.rotation = Rotation("Degrees", F(45, 0))],
     [PlainRequest EXCEPT !.quality = "Bitonal", !.format = "Jp2"]}

\* (mutant) the rotation stage is run before the size stage
NextStep_rotation_before_size(step) ==
    CASE step = "lookup" -> "fetch"
      [] step = "fetch" -> "decode"
      [] step = "decode" -> "region"
      [] step = "region" -> "rotation"
      [] step = "rotation" -> "size"
      [] step = "size" -> "quality"
      [] step = "quality" -> "format"
      [] step = "format" -> "store"
      [] step = "store" -> "done"

\* the steps of process in the order of its body
NextStep(step) ==
    CASE step = "lookup" -> "fetch"
      [] step = "fetch" -> "decode"
      [] step = "decode" -> "region"
      [] step = "region" -> "size"
      [] step = "size" -> "rotation"
      [] step = "rotation" -> "quality"
      [] step = "quality" -> "format"
      [] step = "format" -> "store"
      [] step = "store" -> "done"

\* (mutant) an Err does not stop process
After_ignore_error(r, step) == NextStep(step)

\* the ? operator: an Err returns from process at once
After(r, step) == IF r.ok THEN NextStep(step) ELSE "done"

\* what one step of invocation p leaves behind
Step(p, step, r) ==
    /\ pc[p] = step
    /\ pc' = [pc EXCEPT ![p] = After(r, step)]
    /\ log' = [log EXCEPT ![p] = Append(@, <<step, r.ok>>)]
    /\ UNCHANGED <<call, ret, req, cache0>>

\* process is called with request r; nothing else is running
Start(p, r) ==
    /\ call.fn = "process"
    /\ \A q \in Procs : pc[q] = "idle"
    /\ pc' = [pc EXCEPT ![p] = "lookup"]
    /\ req' = [req EXCEPT ![p] = r]
    /\ cache0' = [cache0 EXCEPT ![p] = cache]
    /\ UNCHANGED <<call, ret, image, bytes, result, log, cache>>

\* storage.get_iiif_file(self): a hit returns from process, anything else
\* (no file, or a file that cannot be read) goes on to the origin.  The log
\* entry also tells whether a file that was there could not be read.
Lookup(p) ==
    /\ pc[p] = "lookup"
    /\ \E readable \in BOOLEAN :
        LET key == CacheKey(req[p])
            hit == CacheHas(cache, key) /\ readable
            failed == CacheHas(cache, key) /\ ~readable
        IN /\ pc' = [pc EXCEPT ![p] = IF hit THEN "done" ELSE NextStep("lookup")]
           /\ log' = [log EXCEPT ![p] = Append(@, <<"lookup", hit, failed>>)]
           /\ result' = [result EXCEPT ![p] =
                 IF hit
                 THEN Ok(ProcessResult(get_content_type(req[p].format),
                                       CacheGet(cache, key)))
                 ELSE @]
    /\ UNCHANGED <<call, ret, req, image, bytes, cache0, cache>>

\* storage.get_origin_file(&self.identifier)
Fetch(p) ==
    /\ pc[p] = "fetch"
    /\ \E readable \in BOOLEAN :
        LET file == OriginFile(req[p].identifier)
            r == IF Len(file) > 0 /\ readable THEN Ok(file)
                 ELSE Err("InternalServerError", "io", <<>>)
        IN /\ Step(p, "fetch", r)
           /\ bytes' = [bytes EXCEPT ![p] = IF r.ok THEN r.val ELSE @]
           /\ result' = [result EXCEPT ![p] = IF r.ok THEN @ ELSE r]
    /\ UNCHANGED <<image, cache>>

\* a step that takes the raster and gives the next one
Transform(p, step, r) ==
    /\ Step(p, step, r)
    /\ image' = [image EXCEPT ![p] = IF r.ok THEN r.val ELSE @]
    /\ result' = [result EXCEPT ![p] = IF r.ok THEN @ ELSE r]
    /\ UNCHANGED <<bytes, cache>>

Decode(p) == Transform(p, "decode", load_from_memory(bytes[p]))
RegionStage(p) == Transform(p, "region", region_process(req[p].region, image[p]))
SizeStage(p) == Transform(p, "size", size_process(req[p].size, image[p]))
QualityStage(p) == Transform(p, "quality", quality_process(req[p].quality, image[p]))

\* Rotation::process: the range check, then the mirror flip, then an exact
\* turn for a multiple of 90
RotationStage(p) ==
    /\ pc[p] = "rotation"
    /\ ~rotation_out_of_range(req[p].rotation.angle) =>
           is_multiple_of_90(req[p].rotation.angle)
    /\ Transform(p, "rotation",
           IF rotation_out_of_range(req[p].rotation.angle)
           THEN Err("BadRequest", "Rotation angle is out of range", <<>>)
           ELSE Ok(standard_rotate(image[p], req[p].rotation.angle)))

\* Rotation::process for any other angle: rotate() draws on a canvas of the
\* bounding box, or panics in put_pixel when the source does not fit the
\* canvas it computed; a panic unwinds out of process, which returns nothing
RotationStageFree(p) ==
    /\ pc[p] = "rotation"
    /\ ~rotation_out_of_range(req[p].rotation.angle)
    /\ ~is_multiple_of_90(req[p].rotation.angle)
    /\ \/ \E w \in Dims, h \in Dims :
            Transform(p, "rotation", Ok(Raster(w, h, image[p].mode)))
       \/ /\ pc' = [pc EXCEPT ![p] = "panicked"]
          /\ log' = [log EXCEPT ![p] = Append(@, <<"rotation", FALSE>>)]
          /\ UNCHANGED <<call, ret, req, image, bytes, result, cache0, cache>>

\* self.format.process(image)
FormatStage(p) ==
    LET r == format_process(req[p].format, image[p])
    IN /\ Step(p, "format", r)
       /\ bytes' = [bytes EXCEPT ![p] = IF r.ok THEN r.val ELSE @]
       /\ result' = [result EXCEPT ![p] = IF r.ok THEN @ ELSE r]
       /\ UNCHANGED <<image, cache>>

\* storage.save_iiif_file(self, &result): create_dir_all and File::create
\* may fail and leave the cache alone; write_all may fail after File::create
\* has left an empty file; process returns Ok only when all three succeeded
Store(p) ==
    /\ pc[p] = "store"
    /\ \E outcome \in {"saved", "not created", "not written"} :
        LET key == CacheKey(req[p])
            r == IF outcome = "saved"
                 THEN Ok(ProcessResult(get_content_type(req[p].format), bytes[p]))
                 ELSE Err("InternalServerError", "io", <<>>)
        IN /\ Step(p, "store", r)
           /\ result' = [result EXCEPT ![p] = r]
           /\ cache' = CASE outcome = "saved" -> CachePut(cache, key, bytes[p])
                         [] outcome = "not written" -> CachePut(cache, key, <<>>)
                         [] OTHER -> cache
    /\ UNCHANGED <<image, bytes>>

\* the caller has taken the result (or the panic): the locals of the call
\* are gone and p can be called again
Return(p) ==
    /\ pc[p] \in {"done", "panicked"}
    /\ pc' = [pc EXCEPT ![p] = "idle"]
    /\ req' = [req EXCEPT ![p] = <<>>]
    /\ image' = [image EXCEPT ![p] = <<>>]
    /\ bytes' = [bytes EXCEPT ![p] = <<>>]
    /\ result' = [result EXCEPT ![p] = Pending]
    /\ log' = [log EXCEPT ![p] = <<>>]
    /\ cache0' = [cache0 EXCEPT ![p] = {}]
    /\ UNCHANGED <<call, ret, cache>>

Init ==
    /\ call = Call("process", <<>>)
    /\ ret = Pending
    /\ ProcIdle

Next ==
    \E p \in Procs :
        \/ \E r \in ProcRequests : Start(p, r)
        \/ Lookup(p)
        \/ Fetch(p)
        \/ Decode(p)
        \/ RegionStage(p)
        \/ SizeStage(p)
        \/ RotationStage(p)
        \/ RotationStageFree(p)
        \/ QualityStage(p)
        \/ FormatStage(p)
        \/ Store(p)
        \/ Return(p)

Spec == Init /\ [][Next]_vars

Protocol ==
    <<"lookup", "fetch", "decode", "region", "size", "rotation", "quality",
      "format", "store">>
\* the lookup of invocation p was a hit
Hit(p) == Len(log[p]) >= 1 /\ log[p][1][2]
\* invocation p went through every step, the store included, with success
Stored(p) ==
    /\ Len(log[p]) = Len(Protocol)
    /\ \A i \in 2..Len(Protocol) : log[p][i][2]

\* C2: process first looks the request up in the derivative cache; on a hit
\* it returns the cached result at once, with no origin fetch, no transform
\* stage and no store; on a miss it performs origin fetch, decode, Region,
\* Size, Rotation, Quality, Format encode and cache store in exactly that
\* order, each at most once, and returns a result only after the store has
\* succeeded.
C2_Protocol ==
    \A p \in Procs :
        /\ Len(log[p]) <= Len(Protocol)
        /\ \A i \in 1..Len(log[p]) : log[p][i][1] = Protocol[i]
        /\ Hit(p) =>
               /\ Len(log[p]) = 1
               /\ pc[p] = "done"
               /\ result[p].ok
               /\ CacheHas(cache0[p], CacheKey(req[p]))
               /\ result[p].val =
                      ProcessResult(get_content_type(req[p].format),
                                    CacheGet(cache0[p], CacheKey(req[p])))
               /\ cache = cache0[p]
        /\ result[p].ok =>
               /\ pc[p] = "done"
               /\ Hit(p) \/ Stored(p)
        /\ (Len(log[p]) >= 1 /\ ~Hit(p)) =>
               \A i \in 2..(Len(log[p]) - 1) : log[p][i][2]

\* C2 witness: the request that every stage changes was served from the
\* cache, where an earlier call had stored it
C2_Witness ==
    \E p \in Procs :
        /\ Hit(p) /\ pc[p] = "done"
        /\ req[p].quality = "Gray"
        /\ result[p].ok
        /\ result[p].val.content_type = "image/png"
        /\ Len(result[p].val.data) = 4

FallibleSteps == {"fetch", "decode", "region", "size", "rotation", "quality", "format"}
\* the i-th step of invocation p was one of the steps before the store and
\* did not succeed
FailedAt(p, i) ==
    /\ i \in 1..Len(log[p])
    /\ log[p][i][1] \in FallibleSteps
    /\ ~log[p][i][2]

-----------------------------------------------------------------------------
\* C11: on every source W x H, Region::Square resolves, to a box whose width
\* and height are both min(W,H), with x = (W - min) / 2 and y = (H - min) / 2
\* by integer division: centred on the longer axis, at 0 on the shorter.
C11_SquareCentred ==
    (InRegion("Square") /\ Returned) =>
        LET side == IF srcW <= srcH THEN srcW ELSE srcH
        IN /\ ret.ok
           /\ ret.val[3] = side /\ ret.val[4] = side
           /\ 2 * ret.val[1] \in {srcW - side, srcW - side - 1}
           /\ 2 * ret.val[2] \in {srcH - side, srcH - side - 1}
           /\ srcW <= srcH => ret.val[1] = 0
           /\ srcH <= srcW => ret.val[2] = 0

\* C11 witness: Square on 300x200 was resolved to (50, 0, 200, 200)
C11_Witness ==
    /\ InRegion("Square") /\ Returned
    /\ srcW = 300 /\ srcH = 200
    /\ ret.ok /\ ret.val = <<50, 0, 200, 200>>

-----------------------------------------------------------------------------
(* The Size stage on bounded crop boxes and on the 300x200 box of the       *)
(* examples                                                                *)

SizeArgs == 0..(MaxDim + 1)
SizeForms ==
    {Size(t, <<>>) : t \in {"Max", "CMax"}}
    \cup {Size(t, <<n>>) : t \in {"W", "CW", "H", "CH"}, n \in SizeArgs}
    \cup {Size(t, <<n>>) : t \in {"Pct", "CPct"}, n \in {0, 50, 100, 150}}
    \cup {Size(t, <<w, h>>) :
            t \in {"WH", "CWH", "LWH", "CLWH"}, w \in SizeArgs, h \in SizeArgs}
SizeInputs ==
    {<<z, d[1], d[2]>> : z \in SizeForms, d \in Dims \X Dims}
    \cup {<<z, 300, 200>> :
            z \in {Size("W", <<150>>), Size("CW", <<360>>), Size("W", <<360>>),
                   Size("LWH", <<225, 100>>), Size("CLWH", <<360, 360>>)}}

InitSize ==
    /\ call \in {Call("size_process", i) : i \in SizeInputs}
    /\ ret = Pending
    /\ ProcIdle

SizeProcess ==
    /\ call.fn = "size_process"
    /\ ~Returned
    /\ ret' = size_process(call.input[1],
                           Raster(call.input[2], call.input[3], "color"))
    /\ UNCHANGED <<call, procVars>>

NextSize == SizeProcess
SpecSize == InitSize /\ [][NextSize]_vars

InSize == call.fn = "size_process" /\ Returned
sizeForm == Tag(call.input[1])
cropW == call.input[2]
cropH == call.input[3]

\* C12: a Size form without the upscale marker (Max, W, H, Pct, WH, LWH)
\* either fails or gives target dimensions within the crop box; W{w} with
\* w > cropW is refused and CW{w} is served; the height of a W or CW result
\* is round(w * cropH / cropW).
C12_NoUpscaleWithoutMarker ==
    InSize =>
        /\ (sizeForm \in {"Max", "W", "H", "Pct", "WH", "LWH"} /\ ret.ok) =>
               ret.val.w <= cropW /\ ret.val.h <= cropH
        /\ (sizeForm = "W" /\ Args(call.input[1])[1] > cropW) => ~ret.ok
        /\ sizeForm = "CW" => ret.ok
        /\ (sizeForm \in {"W", "CW"} /\ ret.ok) =>
               LET w == Args(call.input[1])[1]
               IN /\ ret.val.w = w
                  \* |2 * cropW * h - 2 * w * cropH| <= cropW, halves upward
                  /\ 2 * cropW * ret.val.h - 2 * w * cropH <= cropW
                  /\ 2 * w * cropH - 2 * cropW * ret.val.h < cropW

\* C12 witness: W{360} on 300x200 was refused
C12_Witness ==
    /\ InSize /\ ~ret.ok
    /\ call.input = <<Size("W", <<360>>), 300, 200>>

-----------------------------------------------------------------------------
\* the Size token under examination is pct:n or ^pct:n, n in decimal digits
PctTokenCaret == Len(call.input[2]) > 0 /\ call.input[2][1] = "^"
PctTokenBody == IF PctTokenCaret THEN Tail(call.input[2]) ELSE call.input[2]
PctTokenN == DigitsValue(Drop(PctTokenBody, 4))
InPctToken ==
    /\ call.fn = "round_trip" /\ call.input[1] = "Size" /\ Returned
    /\ Len(PctTokenBody) > 4
    /\ SubSeq(PctTokenBody, 1, 4) = <<"p", "c", "t", ":">>
    /\ \A i \in 5..Len(PctTokenBody) : IsDigit(PctTokenBody[i])

\* C13: 'pct:n' without the upscale marker parses to Pct{n} exactly when
\* n <= 100 and is a format error when n > 100; '^pct:n' parses to CPct{n}
\* for every n, above 100 too.
C13_PctParsing ==
    InPctToken =>
        IF PctTokenCaret
        THEN ret.ok /\ ret.val.first = Size("CPct", <<PctTokenN>>)
        ELSE IF PctTokenN <= 100
        THEN ret.ok /\ ret.val.first = Size("Pct", <<PctTokenN>>)
        ELSE ~ret.ok /\ ret.err.kind = "InvalidSizeFormat"

\* C13 witness: ^pct:150 was parsed, to CPct{150} (test_size_parsing)
C13_Witness ==
    /\ InPctToken
    /\ call.input[2] = <<"^", "p", "c", "t", ":", "1", "5", "0">>
    /\ ret.ok /\ ret.val.first = Size("CPct", <<150>>)

-----------------------------------------------------------------------------
(* Rotation::process on bounded images and on the 300x200 image of         *)
(* test_rotation_process                                                   *)

RotationAngles ==
    {F(0, 0), NormFin(TRUE, 0, 0), F(90, 0), F(180, 0), F(270, 0), F(360, 0),
     F(225, 1), F(30, 0), F(45, 0), F(80, 0), F(135, 0), F(200, 0), F(300, 0),
     NormFin(TRUE, 5, 1), NormFin(TRUE, 90, 0), F(3605, 1), F(400, 0),
     FInf(FALSE), FInf(TRUE), FNaN}
RotationInputs ==
    {<<Rotation(t, a), d[1], d[2]>> :
        t \in {"Degrees", "MirrorDegrees"}, a \in RotationAngles,
        d \in (Dims \X Dims) \cup {<<300, 200>>, <<300, 10>>}}

InitRotation ==
    /\ call \in {Call("rotation_process", i) : i \in RotationInputs}
    /\ ret = Pending
    /\ ProcIdle

RotationProcess ==
    /\ call.fn = "rotation_process"
    /\ ~Returned
    /\ ret' = rotation_process(call.input[1],
                               Raster(call.input[2], call.input[3], "color"))
    /\ UNCHANGED <<call, procVars>>

NextRotation == RotationProcess
SpecRotation == InitRotation /\ [][NextRotation]_vars

InRotation == call.fn = "rotation_process" /\ Returned
rotAngle == call.input[1].angle
\* the angle is a number below 0, or above 360
AngleBelow0 ==
    \/ rotAngle.k = "inf" /\ rotAngle.neg
    \/ rotAngle.k = "fin" /\ rotAngle.neg /\ rotAngle.m > 0
AngleAbove360 ==
    \/ rotAngle.k = "inf" /\ ~rotAngle.neg
    \/ rotAngle.k = "fin" /\ ~rotAngle.neg /\ AngleTenths(rotAngle) > 3600
RangeError ==
    /\ ~ret.ok
    /\ ret.err.kind = "BadRequest"
    /\ ret.err.msg = "Rotation angle is out of range"

\* C14: Rotation::process returns the BadRequest range error, and no image,
\* for Degrees(a) and MirrorDegrees(a) with a < 0 or a > 360, and never
\* returns that error for an a inside [0,360].
C14_RotationRange ==
    InRotation => (RangeError <=> (AngleBelow0 \/ AngleAbove360))

\* C14 witness: MirrorDegrees(360.5) was refused
C14_Witness ==
    /\ InRotation /\ RangeError
    /\ call.input[1] = Rotation("MirrorDegrees", F(3605, 1))

rotW == call.input[2]
rotH == call.input[3]
\* the angle is one of 0, 90, 180, 270, 360 (-0 is 0)
QuarterTurns ==
    IF rotAngle.k = "fin" /\ rotAngle.e = 0 /\ (~rotAngle.neg \/ rotAngle.m = 0)
          /\ rotAngle.m \in {0, 90, 180, 270, 360}
    THEN rotAngle.m \div 90
    ELSE 0 - 1

\* C15: for an angle in [0,360] that is a multiple of 90, mirrored or not,
\* Rotation::process returns an image of H x W for 90 and 270 and of W x H
\* for 0, 180 and 360: the canvas does not grow.
C15_QuarterTurnDimensions ==
    (InRotation /\ QuarterTurns >= 0) =>
        /\ ret.ok
        /\ IF QuarterTurns \in {1, 3}
           THEN ret.val.w = rotH /\ ret.val.h = rotW
           ELSE ret.val.w = rotW /\ ret.val.h = rotH

\* C15 witness: 300x200 turned by 90 came out as 200x300
C15_Witness ==
    /\ InRotation /\ ret.ok
    /\ call.input = <<Rotation("Degrees", F(90, 0)), 300, 200>>
    /\ ret.val.w = 200 /\ ret.val.h = 300

Abs(n) == IF n < 0 THEN 0 - n ELSE n
\* the angle is inside [0,360] and no multiple of 90
FreeAngle ==
    /\ rotAngle.k = "fin" /\ ~rotAngle.neg
    /\ AngleTenths(rotAngle) <= 3600
    /\ ~(rotAngle.e = 0 /\ rotAngle.m % 90 = 0)
\* width and height of the axis-aligned bounding box of the source turned
\* about its centre, in units of 1/100000 pixel
BoxWidth ==
    rotW * Abs(Trig(AngleTenths(rotAngle))[1]) + rotH * Abs(Trig(AngleTenths(rotAngle))[2])
BoxHeight ==
    rotW * Abs(Trig(AngleTenths(rotAngle))[2]) + rotH * Abs(Trig(AngleTenths(rotAngle))[1])

\* C16: for an angle in [0,360] that is no multiple of 90, Rotation::process
\* returns an image whose canvas is at least the bounding box of the turned
\* source (to the nearest pixel), and for 22.5 degrees a canvas larger than
\* the source on both axes.
C16_BoundingBox ==
    (InRotation /\ FreeAngle) =>
        /\ ret.ok
        /\ 100000 * ret.val.w + 50000 >= BoxWidth
        /\ 100000 * ret.val.h + 50000 >= BoxHeight
        /\ AngleTenths(rotAngle) = 225 => ret.val.w > rotW /\ ret.val.h > rotH

-----------------------------------------------------------------------------
(* Quality::Bitonal on every small image of a few luminance values *)

MaxPixels == 3
Lumas == {0, 128, 129, 170, 171, 255}
LumaImages ==
    {LumaImage(d[1], d[2], px) :
        d \in {e \in (1..MaxPixels) \X (1..MaxPixels) : e[1] * e[2] <= MaxPixels},
        px \in UNION {[1..n -> Lumas] : n \in 1..MaxPixels}}

InitQuality ==
    /\ call \in {Call("bitonal", g) : g \in {i \in LumaImages : Len(i.px) = i.w * i.h}}
    /\ ret = Pending
    /\ ProcIdle

Bitonal ==
    /\ call.fn = "bitonal"
    /\ ~Returned
    /\ ret' = Ok(bitonal(call.input))
    /\ UNCHANGED <<call, procVars>>

NextQuality == Bitonal
SpecQuality == InitQuality /\ [][NextQuality]_vars

InBitonal == call.fn = "bitonal" /\ Returned

-----------------------------------------------------------------------------
(* The content type of a result *)

ContentTypes ==
    {"image/jpeg", "image/png", "image/gif", "image/webp", "image/tiff",
     "image/jp2", "application/pdf"}

\* C18: every ProcessResult that process returns, computed or taken from
\* the derivative cache, has the content type that get_content_type gives
\* for the format of the request; get_content_type sends the seven formats
\* to seven distinct values, each one of image/jpeg, image/png, image/gif,
\* image/webp, image/tiff, image/jp2 and application/pdf.
C18_ContentType ==
    /\ \A p \in Procs :
           result[p].ok =>
               /\ Hit(p) \/ Stored(p)
               /\ req[p].format \in Formats
               /\ result[p].val.content_type = get_content_type(req[p].format)
               /\ result[p].val.content_type \in ContentTypes
    /\ \A f \in Formats : get_content_type(f) \in ContentTypes
    /\ \A f, g \in Formats : get_content_type(f) = get_content_type(g) => f = g
    /\ Cardinality({get_content_type(f) : f \in Formats}) = 7

\* C18 witness: a png derivative was computed and stored while a jpeg
\* derivative of an earlier call was in the cache
C18_Witness ==
    \E p \in Procs :
        /\ Stored(p) /\ ~Hit(p) /\ pc[p] = "done"
        /\ req[p].format = "Png"
        /\ result[p].ok
        /\ result[p].val.content_type = "image/png"
        /\ CacheHas(cache0[p], CacheKey(PlainRequest))

-----------------------------------------------------------------------------
(* jp2 *)

\* invocation p, serving a jp2 request, has run the Format stage
Jp2Encoded(p) ==
    /\ pc[p] # "idle"
    /\ req[p].format = "Jp2"
    /\ Len(log[p]) >= 8

\* C19: "jp2" parses to Format::Jp2; encoding a jp2 request always fails
\* with an error of the NotImplemented kind, gives no bytes, and process
\* stores nothing in the derivative cache for it.
C19_Jp2NotImplemented ==
    /\ FormatFromStr(<<"j", "p", "2">>) = Ok("Jp2")
    /\ \A img \in {Raster(w, h, m) : w \in Dims, h \in Dims, m \in {"color", "gray", "bitonal"}} :
           ~format_process("Jp2", img).ok
    /\ \A p \in Procs :
           Jp2Encoded(p) =>
               /\ Len(log[p]) = 8
               /\ ~log[p][8][2]
               /\ ~result[p].ok
               /\ result[p].err.kind = "NotImplemented"
               /\ bytes[p] = OriginFile(req[p].identifier)
               /\ cache = cache0[p]
               /\ ~CacheHas(cache, CacheKey(req[p]))

-----------------------------------------------------------------------------
(* An identifier with no origin resource *)

\* invocation p missed the cache and asked the storage for an origin file
\* that is not there
MissingOrigin(p) ==
    /\ pc[p] # "idle"
    /\ Len(log[p]) >= 2
    /\ ~Hit(p)
    /\ OriginFile(req[p].identifier) = <<>>

\* C20: when the derivative cache misses and the identifier resolves to no
\* origin resource, process fails with an error of the NotFound kind (not
\* an internal-server error) and nothing is written to the derivative
\* cache.
C20_MissingOriginNotFound ==
    \A p \in Procs :
        MissingOrigin(p) =>
            /\ Len(log[p]) = 2
            /\ ~log[p][2][2]
            /\ pc[p] = "done"
            /\ ~result[p].ok
            /\ result[p].err.kind = "NotFound"
            /\ result[p].err.kind # "InternalServerError"
            /\ cache = cache0[p]

-----------------------------------------------------------------------------
(* The canonical form of a Size token *)

\* a decimal integer as Display for u32 writes it
PlainDecimal(s) == Len(s) >= 1 /\ AllDigits(s) /\ (Len(s) > 1 => s[1] # "0")

CanonicalSizeBody(b) ==
    \/ b = <<"m", "a", "x">>
    \/ StartsWith(b, <<"p", "c", "t", ":">>) /\ PlainDecimal(Drop(b, 4))
    \/ /\ StartsWith(b, <<"!">>)
       /\ LET parts == Split(Drop(b, 1), ",")
          IN Len(parts) = 2 /\ PlainDecimal(parts[1]) /\ PlainDecimal(parts[2])
    \/ LET parts == Split(b, ",")
       IN /\ Len(parts) = 2
          /\ parts[1] = <<>> \/ PlainDecimal(parts[1])
          /\ parts[2] = <<>> \/ PlainDecimal(parts[2])
          /\ parts[1] # <<>> \/ parts[2] # <<>>

\* max, ^max, w, / ^w, / ,h / ^,h / pct:n / ^pct:n / w,h / ^w,h / !w,h /
\* ^!w,h with the marker first and plain decimal integers
CanonicalSize(s) ==
    CanonicalSizeBody(IF StartsWith(s, <<"^">>) THEN Drop(s, 1) ELSE s)

InSizeRoundTrip == InRoundTrip /\ call.input[1] = "Size"

\* C21: a Size token in canonical form that parses is rendered as exactly
\* the same token; every other token that parses is rendered as a token in
\* canonical form that parses to the same Size (",^1" as "^,1").
C21_SizeCanonicalRender ==
    InSizeRoundTrip =>
        /\ CanonicalSize(call.input[2]) => ret.val.text = call.input[2]
        /\ CanonicalSize(ret.val.text)
        /\ ret.val.second = Ok(ret.val.first)

\* C21 witness: ",^1" was parsed and rendered as "^,1"
C21_Witness ==
    /\ InSizeRoundTrip
    /\ call.input[2] = <<",", "^", "1">>
    /\ ret.val.first = Size("CH", <<1>>)
    /\ ret.val.text = <<"^", ",", "1">>

-----------------------------------------------------------------------------
(* The document that the Pdf arm of Format::process builds with lopdf: the  *)
(* object table (id to object), the counter new ids come from, the trailer. *)
(* 0 stands for an entry a dictionary does not have.                        *)

\* an object: a stream or a dictionary with the entries the arm sets
PdfObject(kind, type) ==
    [kind |-> kind, Type |-> type, Subtype |-> "", Width |-> 0, Height |-> 0,
     Parent |-> 0, Kids |-> <<>>, Count |-> 0, Contents |-> 0, XObject |-> 0,
     Pages |-> 0, MediaBox |-> <<>>]

\* Document::with_version
with_version == [max_id |-> 0, objects |-> <<>>, trailer |-> [Root |-> 0, Size |-> 0]]

\* Document::new_object_id: the next id, nothing stored under it
new_object_id(doc) ==
    [doc |-> [doc EXCEPT !.max_id = doc.max_id + 1], id |-> doc.max_id + 1]

\* doc.objects.insert(id, object)
insert(doc, id, object) == [doc EXCEPT !.objects = (id :> object) @@ doc.objects]

\* (mutant) the counter is not advanced
add_object_same_id(doc, object) ==
    [doc |-> insert(doc, doc.max_id + 1, object), id |-> doc.max_id + 1]

\* Document::add_object: a new id and the object stored under it
add_object(doc, object) ==
    LET fresh == new_object_id(doc)
    IN [doc |-> insert(fresh.doc, fresh.id, object), id |-> fresh.id]

\* Format::process, Format::Pdf arm, after the JPEG encoding of the raster
pdf_document(img) ==
    LET image_stream == [PdfObject("stream", "XObject") EXCEPT
                             !.Subtype = "Image", !.Width = img.w, !.Height = img.h]
        a1 == add_object(with_version, image_stream)
        image_id == a1.id
        a2 == add_object(a1.doc, PdfObject("stream", ""))
        content_id == a2.id
        a3 == new_object_id(a2.doc)
        pages_id == a3.id
        d3 == insert(a3.doc, pages_id, PdfObject("dictionary", "Pages"))
        page == [PdfObject("dictionary", "Page") EXCEPT
                     !.Parent = pages_id, !.MediaBox = <<0, 0, img.w, img.h>>,
                     !.XObject = image_id, !.Contents = content_id]
        a4 == add_object(d3, page)
        page_id == a4.id
        d4 == IF pages_id \in DOMAIN a4.doc.objects
                 /\ a4.doc.objects[pages_id].kind = "dictionary"
              THEN [a4.doc EXCEPT !.objects[pages_id] =
                       [@ EXCEPT !.Kids = Append(@, page_id), !.Count = 1]]
              ELSE a4.doc
        a5 == add_object(d4, [PdfObject("dictionary", "Catalog") EXCEPT !.Pages = pages_id])
        catalog_id == a5.id
    IN [a5.doc EXCEPT !.trailer = [Root |-> catalog_id,
                                   Size |-> Cardinality(DOMAIN a5.doc.objects) + 1]]

MaxPdfDim == 8
PdfInputs ==
    {Raster(w, h, mode) : w \in 1..MaxPdfDim, h \in 1..MaxPdfDim,
                          mode \in {"color", "gray", "bitonal"}}

InitPdf ==
    /\ call \in {Call("pdf", i) : i \in PdfInputs}
    /\ ret = Pending
    /\ ProcIdle

Pdf ==
    /\ call.fn = "pdf"
    /\ ~Returned
    /\ ret' = Ok(pdf_document(call.input))
    /\ UNCHANGED <<call, procVars>>

NextPdf == Pdf
SpecPdf == InitPdf /\ [][NextPdf]_vars

InPdf == call.fn = "pdf" /\ Returned /\ ret.ok
PdfIds == DOMAIN ret.val.objects
PdfOfType(type) == {id \in PdfIds : ret.val.objects[id].Type = type}
\* id refers to an object of the table, of the given type
Resolves(id, type) == id \in PdfIds /\ ret.val.objects[id].Type = type

\* C22: the object table of the PDF built for Format::Pdf holds one image
\* XObject, one content stream, one Pages node, one Page and one Catalog;
\* the trailer Root, the Catalog's Pages, the Kids of Pages, and the Page's
\* Parent, Contents and XObject resource each refer to an object of the
\* table; Pages has exactly one Kid and Count 1; the trailer Size is the
\* number of objects plus one.
C22_PdfClosed ==
    InPdf =>
        /\ Cardinality(PdfIds) = 5
        /\ \A type \in {"XObject", "", "Pages", "Page", "Catalog"} :
               Cardinality(PdfOfType(type)) = 1
        /\ \A id \in PdfOfType("XObject") :
               /\ ret.val.objects[id].kind = "stream"
               /\ ret.val.objects[id].Subtype = "Image"
        /\ \A id \in PdfOfType("") : ret.val.objects[id].kind = "stream"
        /\ Resolves(ret.val.trailer.Root, "Catalog")
        /\ \A id \in PdfOfType("Catalog") : Resolves(ret.val.objects[id].Pages, "Pages")
        /\ \A id \in PdfOfType("Pages") :
               /\ Len(ret.val.objects[id].Kids) = 1
               /\ Resolves(ret.val.objects[id].Kids[1], "Page")
               /\ ret.val.objects[id].Count = 1
        /\ \A id \in PdfOfType("Page") :
               /\ Resolves(ret.val.objects[id].Parent, "Pages")
               /\ ret.val.objects[ret.val.objects[id].Parent].Kids = <<id>>
               /\ Resolves(ret.val.objects[id].Contents, "")
               /\ Resolves(ret.val.objects[id].XObject, "XObject")
        /\ ret.val.trailer.Size = Cardinality(PdfIds) + 1

\* C22 witness: the document of a 3 x 2 raster, with the image as object 1,
\* the page as object 4 and the catalog as object 5
C22_Witness ==
    /\ InPdf
    /\ call.input.w = 3 /\ call.input.h = 2
    /\ ret.val.objects[1].Width = 3
    /\ ret.val.objects[4].MediaBox = <<0, 0, 3, 2>>
    /\ ret.val.trailer = [Root |-> 5, Size |-> 6]

-----------------------------------------------------------------------------
(* The shapes of a Region token *)

InRegionParse == call.fn = "round_trip" /\ call.input[1] = "Region" /\ Returned
\* what Region::from_str returned for the token
RegionParsed == IF ret.ok THEN Ok(ret.val.first) ELSE ret

\* exactly four comma-separated unsigned integers
FourIntegers(t) ==
    LET parts == Split(t, ",")
    IN Len(parts) = 4 /\ \A i \in 1..4 : ParseU32(parts[i]).ok
\* exactly four comma-separated floats
FourFloats(t) ==
    LET parts == Split(t, ",")
    IN Len(parts) = 4 /\ \A i \in 1..4 : ParseF32(parts[i]).ok

\* the four shapes: keyword is the token with its letters in lower case, pct
\* says whether the token has the percent prefix, t is the token
RegionOfShape(keyword, pct, t) ==
    CASE keyword = <<"f", "u", "l", "l">> -> Ok(RegionFull)
      [] keyword = <<"s", "q", "u", "a", "r", "e">> -> Ok(RegionSquare)
      [] pct /\ FourFloats(Drop(t, 4)) ->
            Ok(Region("Pct", [i \in 1..4 |-> ParseF32(Split(Drop(t, 4), ",")[i]).val]))
      [] ~pct /\ FourIntegers(t) ->
            Ok(Region("Rect", [i \in 1..4 |-> ParseU32(Split(t, ",")[i]).val]))
      [] OTHER -> Err("InvalidRegionFormat", "", <<>>)

SameOutcome(r, expected) ==
    /\ r.ok = expected.ok
    /\ r.ok => r.val = expected.val
    /\ ~r.ok => r.err.kind = expected.err.kind

\* C23 as stated: the keywords full and square in any letter case give Full
\* and Square, "pct:" followed by exactly four comma-separated floats gives
\* Pct, exactly four comma-separated unsigned integers give Rect, and every
\* other token is a format error.
C23_RegionShapes ==
    InRegionParse =>
        SameOutcome(RegionParsed,
                    RegionOfShape(ToLower(call.input[2]),
                                  StartsWith(call.input[2], <<"p", "c", "t", ":">>),
                                  call.input[2]))

\* C23: the same four shapes, and a format error for everything else, of
\* the token with the white space around it removed and all of its letters
\* in lower case (so " Square " is Square and "PCT:1,1,1,1" is Pct).
C23_RegionShapesNormalized ==
    InRegionParse =>
        LET t == ToLower(Trim(call.input[2]))
        IN SameOutcome(RegionParsed, RegionOfShape(t, StartsWith(t, <<"p", "c", "t", ":">>), t))

\* C23 witness: "PCT:1,1,1,1" was parsed as Pct(1, 1, 1, 1)
C23_Witness ==
    /\ InRegionParse
    /\ call.input[2] = <<"P", "C", "T", ":", "1", ",", "1", ",", "1", ",", "1">>
    /\ ret.ok
    /\ ret.val.first = RegionPct(F(1, 0), F(1, 0), F(1, 0), F(1, 0))

-----------------------------------------------------------------------------
(* The comma forms of a Size token *)

InSizeParse == call.fn = "round_trip" /\ call.input[1] = "Size" /\ Returned
\* what Size::from_str returned for the token
SizeParsed == IF ret.ok THEN Ok(ret.val.first) ELSE ret
SizeToken == ToLower(Trim(call.input[2]))
\* the token starts with the upscale marker
LeadingCaret == StartsWith(SizeToken, <<"^">>)
SizeContent == IF LeadingCaret THEN Tail(SizeToken) ELSE SizeToken
\* the token is given to parse_dims
CommaForm ==
    /\ ~StartsWith(SizeContent, <<"p", "c", "t", ":">>)
    /\ ~StartsWith(SizeContent, <<"!">>)
    /\ Contains(SizeContent, ",")
CommaParts == Split(SizeContent, ",")
\* the variant with or without the marker
Marked(plain, marked) == IF LeadingCaret THEN marked ELSE plain

\* C24: "w," gives W, ",h" gives H and "w,h" gives WH, which become CW, CH
\* and CWH under a leading "^"; ",^h" gives the same value as "^,h"; a token
\* with both sides of the comma empty, or with more than one comma, is a
\* format error.
C24_SizeCommaForms ==
    (InSizeParse /\ CommaForm) =>
        LET w == CommaParts[1]
            h == CommaParts[2]
        IN /\ Len(CommaParts) > 2 =>
                  ~SizeParsed.ok /\ SizeParsed.err.kind = "InvalidSizeFormat"
           /\ (Len(CommaParts) = 2 /\ w = <<>> /\ h = <<>>) =>
                  ~SizeParsed.ok /\ SizeParsed.err.kind = "InvalidSizeFormat"
           /\ (Len(CommaParts) = 2 /\ ParseU32(w).ok /\ h = <<>>) =>
                  SizeParsed = Ok(Size(Marked("W", "CW"), <<ParseU32(w).val>>))
           /\ (Len(CommaParts) = 2 /\ w = <<>> /\ ParseU32(h).ok) =>
                  SizeParsed = Ok(Size(Marked("H", "CH"), <<ParseU32(h).val>>))
           /\ (Len(CommaParts) = 2 /\ ParseU32(w).ok /\ ParseU32(h).ok) =>
                  SizeParsed = Ok(Size(Marked("WH", "CWH"),
                                       <<ParseU32(w).val, ParseU32(h).val>>))
           /\ (Len(CommaParts) = 2 /\ w = <<>> /\ StartsWith(h, <<"^">>)
               /\ ParseU32(Tail(h)).ok) =>
                  /\ SizeParsed = Ok(Size("CH", <<ParseU32(Tail(h)).val>>))
                  /\ SizeParsed = SizeFromStr(<<"^", ",">> \o Tail(h))

\* C24 witness: ",^10" was parsed as CH{10}
C24_Witness ==
    /\ InSizeParse
    /\ call.input[2] = <<",", "^", "1", "0">>
    /\ ret.ok
    /\ ret.val.first = Size("CH", <<10>>)

-----------------------------------------------------------------------------
(* The shape of a Rotation token *)

InRotationParse == call.fn = "round_trip" /\ call.input[1] = "Rotation" /\ Returned
\* what Rotation::from_str returned for the token
RotationParsed == IF ret.ok THEN Ok(ret.val.first) ELSE ret
Mirrored == StartsWith(call.input[2], <<"!">>)
\* the token without its leading '!'
Remainder == IF Mirrored THEN Tail(call.input[2]) ELSE call.input[2]
\* a finite angle below 0 or above 360
OutsideRange(f) ==
    /\ f.k = "fin"
    /\ \/ f.neg /\ f.m > 0
       \/ ~f.neg /\ f.m > 360 * Pow10(f.e)

\* C25: a leading "!" selects MirrorDegrees and its absence Degrees; the
\* rest of the token must parse as a floating-point number; an empty token,
\* a bare "!" and a remainder that is no number are errors; there is no
\* range check, a number outside [0, 360] parses.
C25_RotationParsing ==
    InRotationParse =>
        /\ RotationParsed.ok <=> ParseF32(Remainder).ok
        /\ RotationParsed.ok =>
               RotationParsed.val =
                   Rotation(IF Mirrored THEN "MirrorDegrees" ELSE "Degrees",
                            ParseF32(Remainder).val)
        /\ ~RotationParsed.ok => RotationParsed.err.kind = "BadRequest"
        /\ call.input[2] \in {<<>>, <<"!">>, <<"!", "a">>, <<"a">>, <<".">>, <<"-">>} => ~RotationParsed.ok
        /\ (ParseF32(Remainder).ok /\ OutsideRange(ParseF32(Remainder).val)) =>
               RotationParsed.ok

\* C25 witness: "!-9" was parsed as MirrorDegrees(-9)
C25_Witness ==
    /\ InRotationParse
    /\ call.input[2] = <<"!", "-", "9">>
    /\ ret.ok
    /\ ret.val.first = Rotation("MirrorDegrees", NormFin(TRUE, 9, 0))
    /\ OutsideRange(ret.val.first.angle)

-----------------------------------------------------------------------------
(* Invocations of process that run at the same time on one LocalStorage.    *)
(* get_iiif_file is File::open and then read_to_end; save_iiif_file is      *)
(* create_dir_all and File::create, which leaves an empty file, and then    *)
(* write_all.  Each is a step of its own, and the steps of different        *)
(* invocations interleave freely: process and LocalStorage hold no lock.    *)
(* The stages between the lookup and the store are those of the sequential  *)
(* model.  write_all is one step: a file that holds part of the bytes is    *)
(* not distinguished from the empty one.                                    *)

ConcurrentRequests == {PlainRequest, [PlainRequest EXCEPT !.format = "Png"]}

\* process is called with request r, whatever the other invocations do
StartConcurrent(p, r) ==
    /\ call.fn = "concurrent"
    /\ pc[p] = "idle"
    /\ pc' = [pc EXCEPT ![p] = "lookup"]
    /\ req' = [req EXCEPT ![p] = r]
    /\ cache0' = [cache0 EXCEPT ![p] = cache]
    /\ UNCHANGED <<call, ret, image, bytes, result, log, cache>>

\* (mutant) the open waits while another invocation builds the same key
LookupOpen_exclusive(p) ==
    /\ pc[p] = "lookup"
    /\ \A q \in Procs \ {p} :
           ~(pc[q] \notin {"idle", "lookup", "reading", "done", "panicked"}
             /\ req[q] = req[p])
    /\ \E opened \in BOOLEAN :
        LET found == CacheHas(cache, CacheKey(req[p])) /\ opened
        IN /\ pc' = [pc EXCEPT ![p] = IF found THEN "reading" ELSE NextStep("lookup")]
           /\ log' = [log EXCEPT ![p] = IF found THEN @ ELSE Append(@, <<"lookup", FALSE>>)]
    /\ UNCHANGED <<call, ret, req, image, bytes, result, cache0, cache>>

\* get_iiif_file, File::open: no file (or one that cannot be opened) is a
\* miss, and process goes on to the origin
LookupOpen(p) ==
    /\ pc[p] = "lookup"
    /\ \E opened \in BOOLEAN :
        LET found == CacheHas(cache, CacheKey(req[p])) /\ opened
        IN /\ pc' = [pc EXCEPT ![p] = IF found THEN "reading" ELSE NextStep("lookup")]
           /\ log' = [log EXCEPT ![p] = IF found THEN @ ELSE Append(@, <<"lookup", FALSE>>)]
    /\ UNCHANGED <<call, ret, req, image, bytes, result, cache0, cache>>

\* get_iiif_file, read_to_end: what the file holds now is the result of
\* process; a failed read is a miss
LookupRead(p) ==
    /\ pc[p] = "reading"
    /\ \E readable \in BOOLEAN :
        /\ pc' = [pc EXCEPT ![p] = IF readable THEN "done" ELSE NextStep("lookup")]
        /\ log' = [log EXCEPT ![p] = Append(@, <<"lookup", readable>>)]
        /\ result' = [result EXCEPT ![p] =
              IF readable
              THEN Ok(ProcessResult(get_content_type(req[p].format),
                                    CacheGet(cache, CacheKey(req[p]))))
              ELSE @]
    /\ UNCHANGED <<call, ret, req, image, bytes, cache0, cache>>

\* save_iiif_file, create_dir_all and File::create: the file is there and
\* empty, whatever it held
StoreCreate(p) ==
    /\ pc[p] = "store"
    /\ \E created \in BOOLEAN :
        /\ pc' = [pc EXCEPT ![p] = IF created THEN "writing" ELSE "done"]
        /\ log' = [log EXCEPT ![p] = IF created THEN @ ELSE Append(@, <<"store", FALSE>>)]
        /\ result' = [result EXCEPT ![p] =
              IF created THEN @ ELSE Err("InternalServerError", "io", <<>>)]
        /\ cache' = IF created THEN CachePut(cache, CacheKey(req[p]), <<>>) ELSE cache
    /\ UNCHANGED <<call, ret, req, image, bytes, cache0>>

\* save_iiif_file, write_all, and the return of process
StoreWrite(p) ==
    /\ pc[p] = "writing"
    /\ \E written \in BOOLEAN :
        /\ pc' = [pc EXCEPT ![p] = "done"]
        /\ log' = [log EXCEPT ![p] = Append(@, <<"store", written>>)]
        /\ result' = [result EXCEPT ![p] =
              IF written
              THEN Ok(ProcessResult(get_content_type(req[p].format), bytes[p]))
              ELSE Err("InternalServerError", "io", <<>>)]
        /\ cache' = IF written THEN CachePut(cache, CacheKey(req[p]), bytes[p]) ELSE cache
    /\ UNCHANGED <<call, ret, req, image, bytes, cache0>>

InitConcurrent ==
    /\ call = Call("concurrent", <<>>)
    /\ ret = Pending
    /\ ProcIdle

NextConcurrent ==
    \E p \in Procs :
        \/ \E r \in ConcurrentRequests : StartConcurrent(p, r)
        \/ LookupOpen(p)
        \/ LookupRead(p)
        \/ Fetch(p)
        \/ Decode(p)
        \/ RegionStage(p)
        \/ SizeStage(p)
        \/ RotationStage(p)
        \/ QualityStage(p)
        \/ FormatStage(p)
        \/ StoreCreate(p)
        \/ StoreWrite(p)
        \/ Return(p)

SpecConcurrent == InitConcurrent /\ [][NextConcurrent]_vars

\* invocation p missed the cache and has not returned
Building(p) == pc[p] \notin {"idle", "lookup", "reading", "done", "panicked"}

\* C26: miss, compute and store are not atomic, and nothing limits a key to
\* one build at a time: an invocation whose key is not in the cache can
\* miss, and one that has computed can create and write the file, whatever
\* the other invocations are doing, one that builds the same key included.
C26_NoExclusion ==
    \A p \in Procs :
        /\ (pc[p] = "lookup" /\ ~CacheHas(cache, CacheKey(req[p]))) =>
               ENABLED (LookupOpen(p) /\ pc'[p] = "fetch")
        /\ pc[p] = "store" => ENABLED (StoreCreate(p) /\ pc'[p] = "writing")
        /\ pc[p] = "writing" =>
               ENABLED (StoreWrite(p) /\ CacheHas(cache', CacheKey(req[p])))

\* C26 witness: two invocations for the same request started on an empty
\* cache; both missed, both computed and both saved the derivative
C26_Witness ==
    /\ req["p1"] = PlainRequest /\ req["p2"] = PlainRequest
    /\ cache0["p1"] = {} /\ cache0["p2"] = {}
    /\ \A p \in Procs :
           /\ pc[p] = "done"
           /\ ~Hit(p) /\ Stored(p)
           /\ result[p].ok
    /\ cache = {<<CacheKey(PlainRequest), result["p1"].val.data>>}

\* the bytes a build of request r gives when every stage succeeds
Derivative(r) ==
    LET decoded == load_from_memory(OriginFile(r.identifier)).val
        cropped == region_process(r.region, decoded).val
        scaled == size_process(r.size, cropped).val
        turned == standard_rotate(scaled, r.rotation.angle)
        toned == quality_process(r.quality, turned).val
    IN format_process(r.format, toned).val

\* C28: while an invocation is saving a derivative, a lookup of the same
\* key by another invocation gives a miss or the complete bytes of the
\* derivative; no interleaving of create, write and read makes a lookup
\* return an empty or cut-off derivative as a hit.
C28_NoPartialHit ==
    \A p \in Procs :
        (pc[p] = "done" /\ Hit(p)) =>
            /\ result[p].ok
            /\ result[p].val.data # <<>>
            /\ result[p].val.data = Derivative(req[p])

-----------------------------------------------------------------------------
(* The box that get_region returns *)

\* C27: whenever get_region succeeds for Full, Square, Rect or Pct on a
\* source of srcW x srcH pixels, the box (x, y, w, h) is not empty and lies
\* inside the source: w >= 1, h >= 1, x < srcW, y < srcH, x + w <= srcW and
\* y + h <= srcH.
C27_BoxInsideSource ==
    (call.fn = "get_region" /\ Returned /\ ret.ok) =>
        /\ ret.val[3] >= 1 /\ ret.val[4] >= 1
        /\ ret.val[1] < srcW /\ ret.val[2] < srcH
        /\ ret.val[1] + ret.val[3] <= srcW
        /\ ret.val[2] + ret.val[4] <= srcH

\* the same for the regions given in pixels or by keyword
BoxInsideSourceNoPct ==
    ~InRegion("Pct") => C27_BoxInsideSource

-----------------------------------------------------------------------------
(* What a successful process leaves in the cache, in the sequential model *)

\* the canonical string of the request of invocation p
Canon(p) == IiifImageDisplay(req[p])
\* the derivative of p's request was in the cache when p was called
CachedAtCall(p) == CacheHas(cache0[p], Canon(p))
\* the file was there and the lookup of p could not read it
LookupFailed(p) == Len(log[p]) >= 1 /\ log[p][1][3]
EntriesUnder(c, key) == {f \in c : f[1] = key}

AfterOk(p) ==
    (pc[p] = "done" /\ result[p].ok) =>
        EntriesUnder(cache, Canon(p)) = {<<Canon(p), result[p].val.data>>}
ServedFromCache(p) ==
    (CachedAtCall(p) /\ Len(log[p]) >= 1 /\ ~LookupFailed(p)) =>
        /\ Hit(p) /\ Len(log[p]) = 1 /\ pc[p] = "done"
        /\ result[p] = Ok(ProcessResult(get_content_type(req[p].format),
                                        CacheGet(cache0[p], Canon(p))))
        /\ cache = cache0[p]
OtherKeysKept(p) ==
    {f \in cache : f[1] # Canon(p)} = {f \in cache0[p] : f[1] # Canon(p)}
\* a file of the cache changes only when an invocation that could not read
\* it stores it again
EntryKept ==
    \A f \in cache :
        \/ f \in cache'
        \/ \E p \in Procs : pc[p] = "store" /\ Canon(p) = f[1] /\ LookupFailed(p)

-----------------------------------------------------------------------------
(* The files LocalStorage opens for a request that try_from accepted.  A    *)
(* path is text; opening it walks its components from the root.             *)

origin_dir == <<"/", "s", "r", "v", "/", "o", "r", "i", "g", "i", "n">>
iiif_dir == <<"/", "s", "r", "v", "/", "i", "i", "i", "f">>

\* Path::join: an absolute path replaces the base
PathJoin(base, path) ==
    IF StartsWith(path, <<"/">>) THEN path ELSE base \o <<"/">> \o path

\* the directories and the file that opening a path walks through: empty
\* components and "." are skipped, ".." leaves the directory it is in
RECURSIVE Walk(_, _)
Walk(components, at) ==
    IF Len(components) = 0 THEN at
    ELSE LET c == Head(components)
         IN Walk(Tail(components),
                 CASE c = <<>> \/ c = <<".">> -> at
                   [] c = <<".", ".">> -> IF Len(at) = 0 THEN at ELSE SubSeq(at, 1, Len(at) - 1)
                   [] OTHER -> Append(at, c))
Located(path) == Walk(Split(path, "/"), <<>>)
\* the file of path is located under the directory dir
Under(dir, path) ==
    /\ Len(Located(path)) > Len(Located(dir))
    /\ SubSeq(Located(path), 1, Len(Located(dir))) = Located(dir)

\* get_origin_file: the file opened for an identifier
OriginPath(identifier) == PathJoin(origin_dir, identifier)
\* get_iiif_file and save_iiif_file: the file opened for a request
IiifPath(params) == PathJoin(iiif_dir, IiifImageDisplay(params))

\* Url::path_segments never gives a segment that is a single- or double-dot
\* segment, written out or percent-encoded: the parser of the url crate
\* resolves those
IsDotSegment(seg) ==
    ToLower(seg) \in {<<".">>, <<"%", "2", "e">>, <<".", ".">>, <<".", "%", "2", "e">>, <<"%", "2", "e", ".">>, <<"%", "2", "e", "%", "2", "e">>}

MaxPieces == 3
IdPieces == {<<".", ".">>, <<".">>, <<"%", "2", "F">>, <<"%", "2", "E">>, <<"a">>}
PathIdSegments ==
    {s \in {Join(p, <<>>) : p \in SeqsUpTo(IdPieces, MaxPieces)} : ~IsDotSegment(s)}

InitPath ==
    /\ call \in {Call("open_paths", <<i, <<"f", "u", "l", "l">>, <<"m", "a", "x">>, <<"0">>, <<"d", "e", "f", "a", "u", "l", "t", ".", "j", "p", "g">>>>) :
                    i \in PathIdSegments}
    /\ ret = Pending
    /\ ProcIdle

\* try_from, and then the paths that get_origin_file, get_iiif_file and
\* save_iiif_file open for the request
OpenPaths ==
    /\ call.fn = "open_paths"
    /\ ~Returned
    /\ LET r == try_from(call.input)
       IN ret' = IF r.ok
                 THEN Ok([identifier |-> r.val.identifier,
                          origin |-> OriginPath(r.val.identifier),
                          iiif |-> IiifPath(r.val)])
                 ELSE r
    /\ UNCHANGED <<call, procVars>>

NextPath == OpenPaths
SpecPath == InitPath /\ [][NextPath]_vars

InPaths == call.fn = "open_paths" /\ Returned /\ ret.ok

\* C30: for every identifier that try_from accepts, also one that decodes
\* to text with "/" or ".." components, get_origin_file opens a file under
\* origin_dir, and get_iiif_file and save_iiif_file open a file under
\* iiif_dir.
C30_PathsConfined ==
    InPaths =>
        /\ Under(origin_dir, ret.val.origin)
        /\ Under(iiif_dir, ret.val.iiif)

\* the derivative cache alone
IiifPathConfined == InPaths => Under(iiif_dir, ret.val.iiif)
\* an identifier with no "/" in it and no ".." gives a file under origin_dir
PlainIdentifierConfined ==
    (InPaths /\ ~Contains(ret.val.identifier, "/") /\ ret.val.identifier # <<".", ".">>) =>
        Under(origin_dir, ret.val.origin)

=============================================================================
